---- MODULE Spec2Model ----
(***************************************************************************)
(* A model of the "managers" package: a Manager owns a piece of state and  *)
(* serves the requests of its mailbox one at a time from the loop of       *)
(* Manager.Start; the package-level map managersMap finds a Manager by     *)
(* name.  Goroutines are modelled as callers (threads that invoke the      *)
(* package's operations) and loops (goroutines that run Manager.Start).    *)
(* Every step of the model holds one access to shared memory (a channel    *)
(* operation, or a critical section of managersLock or of a stateLock).    *)
(***************************************************************************)
EXTENDS Integers, Sequences, FiniteSets, TLC

----------------------------------------------------------------------------
(* Bounds of the model *)

\* Manager objects made by successful NewManager calls
MaxMgr == 2
\* Manager objects made in the scenarios that also remove them
MaxLive == 1
\* Request objects created (NewRequest), kill sentinels included
MaxReq == 3
\* goroutines inside Manager.Start at the same time
MaxLoops == 2
\* largest bufferSize handed to NewManager
MaxBuf == 2

MgrIds == 1 .. MaxMgr
ReqIds == 1 .. MaxReq
LoopIds == 1 .. MaxLoops
\* the goroutines that call the package's operations
CallerIds == {"c1", "c2"}
BufSizes == 1 .. MaxBuf

\* the null pointers
NoMgr == 0
NoReq == 0

\* the names and routes callers use
Names == {"A", "B"}
Routes == {"inc", "setValue", "square", "multiply", "relay"}
\* the payloads callers send
DataVals == {1, 2}

----------------------------------------------------------------------------
(* Values of type interface{} and error *)

\* A value is a terminal (nil, an int, a bool or an error) inside the
\* wrappers wrap lists from the outside in: "chan" is a chan interface{}
\* that yields what it wraps, "resp" a *responseStruct that holds it.
Nil == [k |-> "nil", v |-> 0, wrap |-> <<>>]
IntV(n) == [k |-> "int", v |-> n, wrap |-> <<>>]
BoolV(b) == [k |-> "bool", v |-> IF b THEN 1 ELSE 0, wrap |-> <<>>]
\* the errors a handler makes with errors.New
ErrTexts == <<"Invalid Manager State Type!", "Invalid Request Type!">>
ErrV(n) == [k |-> "error", v |-> n, wrap |-> <<>>]
Chan(x) == [x EXCEPT !.wrap = <<"chan">> \o @]
Resp(x) == [x EXCEPT !.wrap = <<"resp">> \o @]
Unwrap(x) == [x EXCEPT !.wrap = Tail(@)]
IsError(x) == x.k = "error" /\ x.wrap = <<>>
IsChan(x) == x.wrap # <<>> /\ Head(x.wrap) = "chan"
IsResp(x) == x.wrap # <<>> /\ Head(x.wrap) = "resp"

NoErr == [e |-> "nil", route |-> "", name |-> ""]
\* errors.New("Manager with name " + name + " already exists!")
ErrExists(name) == [e |-> "AlreadyExists", route |-> "", name |-> name]
\* errors.New(managerName + " manager is not created or has been deleted ...")
ErrNotFound(name) == [e |-> "NotFound", route |-> "", name |-> name]
\* errors.New("No function named " + route + " added to " + name + " manager.")
ErrNoFunction(route, name) == [e |-> "NoFunction", route |-> route, name |-> name]
\* errors.New("Unable to remove manager " + name + " because it is currently running.")
ErrRunning(name) == [e |-> "Running", route |-> "", name |-> name]

\* the error value x as an error
ErrOf(x) == [e |-> ErrTexts[x.v], route |-> "", name |-> ""]

responseStruct(data, err) == [Data |-> data, Error |-> err]

\* the responseStruct the pointer x points to
AsResponse(x) ==
    IF IsError(Unwrap(x))
        THEN responseStruct(Nil, ErrOf(Unwrap(x)))
        ELSE responseStruct(Unwrap(x), NoErr)

\* the route Manager.Kill sends
KillRoute == "state|kill-manager"

----------------------------------------------------------------------------
(* The handlers attached to routes.  A handler runs in two steps, as a     *)
(* function that is not atomic does: it reads the owned state when it      *)
(* begins and writes it when it returns.                                   *)

NoFn == "none"
Fns == {"inc", "setValue", "square", "multiply", "relay"}

\* the counter increment of a handler that reads the counter, then writes it
incCounter(read) == read + 1

\* the owned state a handler leaves: cur is the state at the handler's
\* return, read the value the handler read when it began, x the payload
HandlerState(fn, cur, read, x) ==
    CASE fn = "inc" -> incCounter(read)
      [] fn = "setValue" -> x.v
      [] OTHER -> cur

\* a handler that returns what the request asks it to return
relay(x) == x

\* the value a handler returns
HandlerReturn(fn, read, x) ==
    CASE fn = "square" -> IntV(read * read)
      [] fn = "multiply" -> IF x.k = "int" /\ x.wrap = <<>>
                              THEN IntV(read * x.v)
                              ELSE ErrV(2)
      [] fn = "relay" -> relay(x)
      [] OTHER -> Nil

----------------------------------------------------------------------------
VARIABLES
    managersMap,  \* the package's map from a name to a Manager
    mgr,          \* the Manager objects, in the order of their creation
    req,          \* the Request objects, in the order of their creation
    state,        \* the owned states: state[m][k] is a state handed to m's Start
    loop,         \* the goroutines running Manager.Start
    caller,       \* the goroutines calling the package
    ret,          \* what the call that returned in the last step returned
    senders       \* history: the callers that made a Request

vars == <<managersMap, mgr, req, state, loop, caller, ret, senders>>

\* the owned states a caller may hand to the Start of one Manager
StateKeys == {"s1"}
\* those, and the state a caller hands to a Start that follows a Kill
OwnedStates == StateKeys \cup {"s2"}
InitialValue == 0

\* a goroutine also has the set of the locks it holds, and a loop the
\* call its handler is making, with the Request and the Manager of an
\* Await that it makes
FreeLoop == [pc |-> "free", m |-> NoMgr, s |-> "", r |-> NoReq, fn |-> NoFn,
             read |-> 0, response |-> responseStruct(Nil, NoErr),
             held |-> {}, call |-> "", sub |-> NoReq, to |-> NoMgr]
NoRet == [c |-> "", op |-> "", m |-> NoMgr, r |-> NoReq, Data |-> Nil, Error |-> NoErr]
NoArg == [route |-> "", fn |-> NoFn]
IdleCaller == [pc |-> "idle", op |-> "", m |-> NoMgr, r |-> NoReq, arg |-> NoArg,
               held |-> {}]

Init ==
    /\ managersMap = [n \in Names |-> NoMgr]
    /\ mgr = <<>>
    /\ req = <<>>
    /\ state = [m \in MgrIds |-> [k \in OwnedStates |-> InitialValue]]
    /\ loop = [l \in LoopIds |-> FreeLoop]
    /\ caller = [c \in CallerIds |-> IdleCaller]
    /\ ret = NoRet
    /\ senders = {}

----------------------------------------------------------------------------
(* Helpers *)

Allocated == 1 .. Len(mgr)
Created == 1 .. Len(req)

\* getManager: the Manager the map holds under a name (NoMgr: ok is false)
getManager(managerName) == managersMap[managerName]

\* how a call names its Manager: by handle or, through the package's
\* bindings, by name
Targets ==
    [via : {"handle"}, m : Allocated, name : {""}]
        \cup [via : {"name"}, m : {NoMgr}, name : Names]

Handles == [via : {"handle"}, m : Allocated, name : {""}]

\* by handle, or by the name "A"
TargetsA == Handles \cup [via : {"name"}, m : {NoMgr}, name : {"A"}]

\* a lookup by name that yields the Manager created first
ResolveFirst(t) ==
    IF t.via = "handle" THEN t.m
    ELSE IF getManager(t.name) = NoMgr THEN NoMgr ELSE 1

Resolve(t) == IF t.via = "handle" THEN t.m ELSE getManager(t.name)

\* the call of caller c returns (data, err); op, m and r say which call
Returns(c, op, m, r, data, err) ==
    /\ caller' = [caller EXCEPT ![c] = IdleCaller]
    /\ ret' = [c |-> c, op |-> op, m |-> m, r |-> r, Data |-> data, Error |-> err]

\* caller c enters a call, and stands before its step pc
Goto(c, pc, op, m, r, arg) ==
    /\ caller' = [caller EXCEPT ![c] =
          [pc |-> pc, op |-> op, m |-> m, r |-> r, arg |-> arg, held |-> {}]]
    /\ ret' = NoRet

\* caller c goes on to the step pc of its call
Continues(c, pc) ==
    /\ caller' = [caller EXCEPT ![c].pc = pc]
    /\ ret' = NoRet

Idle(c) == caller[c].pc = "idle"

\* NewRequest: a Request with an empty response channel of capacity 1.
\* The other fields are history, which no step reads: the Manager the
\* Request was queued on, its place in the order of that Manager's arrivals,
\* the length of the mailbox it joined, how far it got, the handler that
\* served it with the state value the handler read, how many responses
\* were stored in its channel and taken from it, and how many of its
\* errors the loop printed.
NewRequest(route, data) ==
    [Route |-> route, Data |-> data, response |-> <<>>,
     dest |-> NoMgr, ticket |-> 0, ahead |-> 0, phase |-> "created",
     fn |-> NoFn, read |-> 0, writes |-> 0, taken |-> 0, printed |-> 0]

\* a getData that returns no data
getDataNil(response) == responseStruct(Nil, response.Error)

\* responseStruct.getData: the data, or the error
RECURSIVE getData(_)
getData(response) ==
    IF response.Error = NoErr
        THEN LET data == IF IsChan(response.Data)
                           THEN Unwrap(response.Data)
                           ELSE response.Data
             IN  IF IsResp(data)
                   THEN getData(AsResponse(data))
                   ELSE responseStruct(response.Data, NoErr)
        ELSE responseStruct(Nil, response.Error)

\* the loops that are inside Start for Manager m
LoopsOf(m) == {l \in LoopIds : loop[l].pc # "free" /\ loop[l].m = m}

----------------------------------------------------------------------------
(* Manager.Start: the dispatch loop *)

\* a Start that makes the Manager a new, empty mailbox
SetRunningFresh(l) ==
    /\ loop[l].pc = "start"
    /\ mgr' = [mgr EXCEPT ![loop[l].m].running = TRUE,
                          ![loop[l].m].requests = <<>>]
    /\ loop' = [loop EXCEPT ![l].pc = "recv"]
    /\ UNCHANGED <<managersMap, req, state, caller, senders>>
    /\ ret' = NoRet

\* Start's first critical section: manager.running = true
SetRunning(l) ==
    /\ loop[l].pc = "start"
    /\ mgr' = [mgr EXCEPT ![loop[l].m].running = TRUE]
    /\ loop' = [loop EXCEPT ![l].pc = "recv"]
    /\ UNCHANGED <<managersMap, req, state, caller, senders>>
    /\ ret' = NoRet

\* a receive that takes the newest request of the mailbox
ReceivedLast(q) == q[Len(q)]

\* the request a receive takes from the mailbox
Received(q) == Head(q)

\* a receive that leaves the request in the mailbox
ReceiveKeeps(l) ==
    LET m == loop[l].m
        r == Received(mgr[m].requests)
    IN  /\ loop[l].pc = "recv"
        /\ mgr[m].requests # <<>>
        /\ loop' = [loop EXCEPT ![l] =
              [@ EXCEPT !.r = r,
                        !.response = responseStruct(Nil, NoErr),
                        !.pc = IF req[r].Route = KillRoute THEN "kill" ELSE "lookup"]]
        /\ req' = [req EXCEPT ![r].phase = "received"]
        /\ UNCHANGED <<managersMap, mgr, state, caller, senders>>
        /\ ret' = NoRet

\* a receive without the test of the kill route: every request is looked up
ReceiveNoKill(l) ==
    LET m == loop[l].m
        r == Received(mgr[m].requests)
    IN  /\ loop[l].pc = "recv"
        /\ mgr[m].requests # <<>>
        /\ mgr' = [mgr EXCEPT ![m].requests = Tail(@)]
        /\ loop' = [loop EXCEPT ![l] =
              [@ EXCEPT !.r = r,
                        !.response = responseStruct(Nil, NoErr),
                        !.pc = "lookup"]]
        /\ req' = [req EXCEPT ![r].phase = "received"]
        /\ UNCHANGED <<managersMap, state, caller, senders>>
        /\ ret' = NoRet

\* request := <-manager.requests, and the test of the kill route
Receive(l) ==
    LET m == loop[l].m
        r == Received(mgr[m].requests)
    IN  /\ loop[l].pc = "recv"
        /\ mgr[m].requests # <<>>
        /\ mgr' = [mgr EXCEPT ![m].requests = Tail(@)]
        /\ loop' = [loop EXCEPT ![l] =
              [@ EXCEPT !.r = r,
                        !.response = responseStruct(Nil, NoErr),
                        !.pc = IF req[r].Route = KillRoute THEN "kill" ELSE "lookup"]]
        /\ req' = [req EXCEPT ![r].phase = "received"]
        /\ UNCHANGED <<managersMap, state, caller, senders>>
        /\ ret' = NoRet

\* request.storeResponse: a send on the response channel, of capacity 1
storeResponse(r, response) ==
    /\ Len(req[r].response) < 1
    /\ req' = [req EXCEPT ![r].response = Append(@, response),
                          ![r].phase = "responded",
                          ![r].writes = @ + 1]

\* a kill branch that stores the response and goes on receiving
StoreKillContinues(l) ==
    /\ loop[l].pc = "kill"
    /\ storeResponse(loop[l].r, loop[l].response)
    /\ loop' = [loop EXCEPT ![l].pc = "recv", ![l].r = NoReq]
    /\ UNCHANGED <<managersMap, mgr, state, caller, senders>>
    /\ ret' = NoRet

\* the kill branch: store the empty response and break
StoreKill(l) ==
    /\ loop[l].pc = "kill"
    /\ storeResponse(loop[l].r, loop[l].response)
    /\ loop' = [loop EXCEPT ![l].pc = "exit", ![l].r = NoReq]
    /\ UNCHANGED <<managersMap, mgr, state, caller, senders>>
    /\ ret' = NoRet

\* a loop that answers a route without a handler with an empty response
DispatchSilent(l) ==
    LET m == loop[l].m
        r == loop[l].r
        fn == mgr[m].functions[req[r].Route]
    IN  /\ loop[l].pc = "lookup"
        /\ IF fn = NoFn
             THEN /\ loop' = [loop EXCEPT ![l].pc = "store"]
                  /\ req' = [req EXCEPT ![r].phase = "dispatched"]
             ELSE /\ loop' = [loop EXCEPT ![l].pc = "handler", ![l].fn = fn,
                                          ![l].read = state[m][loop[l].s]]
                  /\ req' = [req EXCEPT ![r].phase = "dispatched", ![r].fn = fn,
                                        ![r].read = state[m][loop[l].s]]
        /\ UNCHANGED <<managersMap, mgr, state, caller, senders>>
        /\ ret' = NoRet

\* if response.Error != nil { fmt.Println(...) }: the errors printed for
\* request r once the loop holds the response
Println(r, response) ==
    IF response.Error # NoErr THEN req[r].printed + 1 ELSE req[r].printed

\* manager.getFunction under stateLock; a missing route makes the error
\* response, which the loop prints; a route that is there begins its
\* handler, which reads the state
Dispatch(l) ==
    LET m == loop[l].m
        r == loop[l].r
        fn == mgr[m].functions[req[r].Route]
        response == responseStruct(Nil, ErrNoFunction(req[r].Route, mgr[m].Name))
    IN  /\ loop[l].pc = "lookup"
        /\ IF fn = NoFn
             THEN /\ loop' = [loop EXCEPT ![l].pc = "store",
                                          ![l].response = response]
                  /\ req' = [req EXCEPT ![r].phase = "dispatched",
                                        ![r].printed = Println(r, response)]
             ELSE /\ loop' = [loop EXCEPT ![l].pc = "handler", ![l].fn = fn,
                                          ![l].read = state[m][loop[l].s]]
                  /\ req' = [req EXCEPT ![r].phase = "dispatched", ![r].fn = fn,
                                        ![r].read = state[m][loop[l].s]]
        /\ UNCHANGED <<managersMap, mgr, state, caller, senders>>
        /\ ret' = NoRet

\* a response that holds whatever the handler returned as its Data
handlerResponsePlain(result) == responseStruct(result, NoErr)

\* the response made of what the handler returned: an error becomes the
\* response's Error and the Data is cleared
handlerResponse(result) ==
    IF IsError(result)
        THEN responseStruct(Nil, ErrOf(result))
        ELSE responseStruct(result, NoErr)

\* a handler that is handed a copy of the state: what it writes is lost
HandlerReturnsCopy(l) ==
    /\ loop[l].pc = "handler"
    /\ loop' = [loop EXCEPT ![l].pc = "store",
          ![l].response =
             handlerResponse(HandlerReturn(loop[l].fn, loop[l].read, req[loop[l].r].Data))]
    /\ UNCHANGED <<managersMap, mgr, req, state, caller, senders>>
    /\ ret' = NoRet

\* a handler call that looks the route up again when the handler returns
HandlerReturnsLate(l) ==
    LET m == loop[l].m
        r == loop[l].r
        s == loop[l].s
        fn == mgr[m].functions[req[r].Route]
        response ==
            handlerResponse(HandlerReturn(fn, loop[l].read, req[r].Data))
    IN  /\ loop[l].pc = "handler"
        /\ state' = [state EXCEPT ![m][s] =
              HandlerState(fn, @, loop[l].read, req[r].Data)]
        /\ loop' = [loop EXCEPT ![l].pc = "store", ![l].response = response]
        /\ req' = [req EXCEPT ![r].printed = Println(r, response)]
        /\ UNCHANGED <<managersMap, mgr, caller, senders>>
        /\ ret' = NoRet

\* the handler returns: response.Data = function(managerState, request.Data);
\* the loop prints the error of the response, if it has one
HandlerReturns(l) ==
    LET m == loop[l].m
        r == loop[l].r
        s == loop[l].s
        response ==
            handlerResponse(HandlerReturn(loop[l].fn, loop[l].read, req[r].Data))
    IN  /\ loop[l].pc = "handler"
        /\ state' = [state EXCEPT ![m][s] =
              HandlerState(loop[l].fn, @, loop[l].read, req[r].Data)]
        /\ loop' = [loop EXCEPT ![l].pc = "store", ![l].response = response]
        /\ req' = [req EXCEPT ![r].printed = Println(r, response)]
        /\ UNCHANGED <<managersMap, mgr, caller, senders>>
        /\ ret' = NoRet

\* a loop that breaks after it has stored a response with an error
StoreFatal(l) ==
    /\ loop[l].pc = "store"
    /\ storeResponse(loop[l].r, loop[l].response)
    /\ loop' = [loop EXCEPT ![l].pc = IF loop[l].response.Error = NoErr
                                        THEN "recv" ELSE "exit",
                            ![l].r = NoReq, ![l].fn = NoFn, ![l].read = 0,
                            ![l].response = responseStruct(Nil, NoErr)]
    /\ UNCHANGED <<managersMap, mgr, state, caller, senders>>
    /\ ret' = NoRet

\* a loop that goes back to its receive without storing the response
StoreDrops(l) ==
    /\ loop[l].pc = "store"
    /\ loop' = [loop EXCEPT ![l].pc = "recv", ![l].r = NoReq, ![l].fn = NoFn,
                            ![l].read = 0,
                            ![l].response = responseStruct(Nil, NoErr)]
    /\ UNCHANGED <<managersMap, mgr, req, state, caller, senders>>
    /\ ret' = NoRet

\* request.storeResponse(response) at the end of the user branch
Store(l) ==
    /\ loop[l].pc = "store"
    /\ storeResponse(loop[l].r, loop[l].response)
    /\ loop' = [loop EXCEPT ![l].pc = "recv", ![l].r = NoReq, ![l].fn = NoFn,
                            ![l].read = 0,
                            ![l].response = responseStruct(Nil, NoErr)]
    /\ UNCHANGED <<managersMap, mgr, state, caller, senders>>
    /\ ret' = NoRet

\* a Start that clears the flag and goes back to receiving
ClearRunningLoops(l) ==
    /\ loop[l].pc = "exit"
    /\ mgr' = [mgr EXCEPT ![loop[l].m].running = FALSE]
    /\ loop' = [loop EXCEPT ![l].pc = "recv"]
    /\ UNCHANGED <<managersMap, req, state, caller, senders>>
    /\ ret' = NoRet

\* Start's last critical section: manager.running = false; Start returns
ClearRunning(l) ==
    /\ loop[l].pc = "exit"
    /\ mgr' = [mgr EXCEPT ![loop[l].m].running = FALSE]
    /\ loop' = [loop EXCEPT ![l] = FreeLoop]
    /\ UNCHANGED <<managersMap, req, state, caller, senders>>
    /\ ret' = NoRet


----------------------------------------------------------------------------
(* The package's operations, called by handle or by name *)

\* a NewManager that does not look the name up before it writes the map
NewManagerOverwrites(c, name, bufferSize) ==
    /\ Idle(c)
    /\ Len(mgr) < MaxMgr
    /\ mgr' = Append(mgr,
          [Name |-> name, bufferSize |-> bufferSize, requests |-> <<>>,
           running |-> FALSE, functions |-> [rt \in Routes |-> NoFn],
           arrivals |-> 0])
    /\ managersMap' = [managersMap EXCEPT ![name] = Len(mgr) + 1]
    /\ Returns(c, "NewManager", Len(mgr) + 1, NoReq, Nil, NoErr)
    /\ UNCHANGED <<req, state, loop, senders>>

\* a NewManager that returns the Manager the map holds under the name
NewManagerGetsExisting(c, name, bufferSize) ==
    /\ Idle(c)
    /\ IF getManager(name) # NoMgr
         THEN /\ Returns(c, "NewManager", getManager(name), NoReq, Nil, NoErr)
              /\ UNCHANGED <<managersMap, mgr>>
         ELSE /\ Len(mgr) < MaxMgr
              /\ mgr' = Append(mgr,
                    [Name |-> name, bufferSize |-> bufferSize, requests |-> <<>>,
                     running |-> FALSE, functions |-> [rt \in Routes |-> NoFn],
                     arrivals |-> 0])
              /\ managersMap' = [managersMap EXCEPT ![name] = Len(mgr) + 1]
              /\ Returns(c, "NewManager", Len(mgr) + 1, NoReq, Nil, NoErr)
    /\ UNCHANGED <<req, state, loop, senders>>

\* NewManager: under managersLock, refuse a name the map holds, otherwise
\* put a new Manager (not running, no routes, an empty mailbox) in the map
NewManager(c, name, bufferSize) ==
    /\ Idle(c)
    /\ IF getManager(name) # NoMgr
         THEN /\ Returns(c, "NewManager", NoMgr, NoReq, Nil, ErrExists(name))
              /\ UNCHANGED <<managersMap, mgr>>
         ELSE /\ Len(mgr) < MaxMgr
              /\ mgr' = Append(mgr,
                    [Name |-> name, bufferSize |-> bufferSize, requests |-> <<>>,
                     running |-> FALSE, functions |-> [rt \in Routes |-> NoFn],
                     arrivals |-> 0])
              /\ managersMap' = [managersMap EXCEPT ![name] = Len(mgr) + 1]
              /\ Returns(c, "NewManager", Len(mgr) + 1, NoReq, Nil, NoErr)
    /\ UNCHANGED <<req, state, loop, senders>>

\* GetManager: the Manager the map holds under the name, or the error
GetManager(c, name) ==
    /\ Idle(c)
    /\ IF getManager(name) = NoMgr
         THEN Returns(c, "GetManager", NoMgr, NoReq, Nil, ErrNotFound(name))
         ELSE Returns(c, "GetManager", getManager(name), NoReq, Nil, NoErr)
    /\ UNCHANGED <<managersMap, mgr, req, state, loop, senders>>

\* a binding that returns no error for a name the map does not hold
NotFoundSilent(c, op, t) ==
    /\ Resolve(t) = NoMgr
    /\ Returns(c, op, NoMgr, NoReq, Nil, NoErr)
    /\ UNCHANGED <<managersMap, mgr, req, state, loop, senders>>

\* a binding's getManager: the error of a name the map does not hold
NotFound(c, op, t) ==
    /\ Resolve(t) = NoMgr
    /\ Returns(c, op, NoMgr, NoReq, Nil, ErrNotFound(t.name))
    /\ UNCHANGED <<managersMap, mgr, req, state, loop, senders>>

\* Manager.Attach and Manager.Detach, under stateLock
attach(m, route, fn) == mgr' = [mgr EXCEPT ![m].functions[route] = fn]

\* Attach by handle; by name, the binding's getManager comes first
Attach(c, t, route, fn) ==
    /\ Idle(c)
    /\ \/ NotFound(c, "Attach", t)
       \/ /\ t.via = "handle"
          /\ attach(t.m, route, fn)
          /\ Returns(c, "Attach", t.m, NoReq, Nil, NoErr)
          /\ UNCHANGED <<managersMap, req, state, loop, senders>>
       \/ /\ t.via = "name" /\ Resolve(t) # NoMgr
          /\ Goto(c, "attach", "Attach", Resolve(t), NoReq,
                  [route |-> route, fn |-> fn])
          /\ UNCHANGED <<managersMap, mgr, req, state, loop, senders>>

\* a Detach that leaves the route in the table
DetachKeeps(c, t, route) ==
    /\ Idle(c)
    /\ Resolve(t) # NoMgr
    /\ Returns(c, "Detach", Resolve(t), NoReq, Nil, NoErr)
    /\ UNCHANGED <<managersMap, mgr, req, state, loop, senders>>

Detach(c, t, route) ==
    /\ Idle(c)
    /\ \/ NotFound(c, "Detach", t)
       \/ /\ t.via = "handle"
          /\ attach(t.m, route, NoFn)
          /\ Returns(c, "Detach", t.m, NoReq, Nil, NoErr)
          /\ UNCHANGED <<managersMap, req, state, loop, senders>>
       \/ /\ t.via = "name" /\ Resolve(t) # NoMgr
          /\ Goto(c, "attach", "Detach", Resolve(t), NoReq,
                  [route |-> route, fn |-> NoFn])
          /\ UNCHANGED <<managersMap, mgr, req, state, loop, senders>>

\* the second step of Attach and Detach by name
AttachByName(c) ==
    /\ caller[c].pc = "attach"
    /\ attach(caller[c].m, caller[c].arg.route, caller[c].arg.fn)
    /\ Returns(c, caller[c].op, caller[c].m, NoReq, Nil, NoErr)
    /\ UNCHANGED <<managersMap, req, state, loop, senders>>

\* a Start that goes on with the state the first Start was handed
StartFirstState(c, t, s) ==
    /\ Idle(c)
    /\ \/ NotFound(c, "Start", t)
       \/ /\ Resolve(t) # NoMgr
          /\ \E l \in LoopIds :
                /\ loop[l].pc = "free"
                /\ \A l2 \in LoopIds : l2 < l => loop[l2].pc # "free"
                /\ loop' = [loop EXCEPT ![l] =
                      [FreeLoop EXCEPT !.pc = "start", !.m = Resolve(t), !.s = "s1"]]
          /\ Returns(c, "Start", Resolve(t), NoReq, Nil, NoErr)
          /\ UNCHANGED <<managersMap, mgr, req, state, senders>>

\* go manager.Start(managerState): a new goroutine enters Start.  By name,
\* the binding finds the Manager first and starts the goroutine itself.
Start(c, t, s) ==
    /\ Idle(c)
    /\ \/ NotFound(c, "Start", t)
       \/ /\ Resolve(t) # NoMgr
          /\ \E l \in LoopIds :
                /\ loop[l].pc = "free"
                /\ \A l2 \in LoopIds : l2 < l => loop[l2].pc # "free"
                /\ loop' = [loop EXCEPT ![l] =
                      [FreeLoop EXCEPT !.pc = "start", !.m = Resolve(t), !.s = s]]
          /\ Returns(c, "Start", Resolve(t), NoReq, Nil, NoErr)
          /\ UNCHANGED <<managersMap, mgr, req, state, senders>>

\* Manager.IsRunning
IsRunning(c, m) ==
    /\ Idle(c)
    /\ m \in Allocated
    /\ Returns(c, "IsRunning", m, NoReq,
               BoolV(mgr[m].running), NoErr)
    /\ UNCHANGED <<managersMap, mgr, req, state, loop, senders>>

\* the calls that queue a request: Send and Await make the Request (Kill
\* and KillAndRemove await the kill route); the send on the mailbox follows
Queue(c, op, t, route, data) ==
    /\ Idle(c)
    /\ \/ NotFound(c, op, t)
       \/ /\ Resolve(t) # NoMgr
          /\ Len(req) < MaxReq
          /\ req' = Append(req, NewRequest(route, data))
          /\ senders' = senders \cup {c}
          /\ Goto(c, "send", op, Resolve(t), Len(req) + 1, NoArg)
          /\ UNCHANGED <<managersMap, mgr, state, loop>>

Send(c, t, route, data) == Queue(c, "Send", t, route, data)
Await(c, t, route, data) == Queue(c, "Await", t, route, data)
\* a Kill that returns at once when the Manager is not running
KillChecked(c, t) ==
    IF Resolve(t) # NoMgr /\ ~mgr[Resolve(t)].running
        THEN /\ Idle(c)
             /\ Returns(c, "Kill", Resolve(t), NoReq, Nil, NoErr)
             /\ UNCHANGED <<managersMap, mgr, req, state, loop, senders>>
        ELSE Queue(c, "Kill", t, KillRoute, Nil)

Kill(c, t) == Queue(c, "Kill", t, KillRoute, Nil)
KillAndRemove(c, t) == Queue(c, "KillAndRemove", t, KillRoute, Nil)

\* SendRequest and AwaitRequest queue a Request the caller holds, which
\* may have been queued before; arrivals are counted up to MaxReq
Requeue(c, op, t, r) ==
    /\ Idle(c)
    /\ \/ NotFound(c, op, t)
       \/ /\ Resolve(t) # NoMgr
          /\ r \in Created
          /\ mgr[Resolve(t)].arrivals < MaxReq
          /\ Goto(c, "send", op, Resolve(t), r, NoArg)
          /\ UNCHANGED <<managersMap, mgr, req, state, loop, senders>>

SendRequest(c, t, r) == Requeue(c, "SendRequest", t, r)
AwaitRequest(c, t, r) == Requeue(c, "AwaitRequest", t, r)

\* a send on the mailbox that does not wait for room
EnqueueUnbounded(c) ==
    LET m == caller[c].m
        r == caller[c].r
    IN  /\ caller[c].pc = "send"
        /\ mgr' = [mgr EXCEPT ![m].requests = Append(@, r),
                              ![m].arrivals = @ + 1]
        /\ req' = [req EXCEPT ![r].dest = m, ![r].ticket = mgr[m].arrivals + 1,
                              ![r].ahead = Len(mgr[m].requests),
                              ![r].phase = "enqueued"]
        /\ IF caller[c].op \in {"Send", "SendRequest"}
             THEN Returns(c, caller[c].op, m, r, Nil, NoErr)
             ELSE Continues(c, "wait")
        /\ UNCHANGED <<managersMap, state, loop, senders>>

\* a Send that waits for the response as Await does
EnqueueWaits(c) ==
    LET m == caller[c].m
        r == caller[c].r
    IN  /\ caller[c].pc = "send"
        /\ Len(mgr[m].requests) < mgr[m].bufferSize
        /\ mgr' = [mgr EXCEPT ![m].requests = Append(@, r),
                              ![m].arrivals = @ + 1]
        /\ req' = [req EXCEPT ![r].dest = m, ![r].ticket = mgr[m].arrivals + 1,
                              ![r].ahead = Len(mgr[m].requests),
                              ![r].phase = "enqueued"]
        /\ Continues(c, "wait")
        /\ UNCHANGED <<managersMap, state, loop, senders>>

\* a send on the mailbox after which every call returns: Kill as Send
EnqueueReturns(c) ==
    LET m == caller[c].m
        r == caller[c].r
    IN  /\ caller[c].pc = "send"
        /\ Len(mgr[m].requests) < mgr[m].bufferSize
        /\ mgr' = [mgr EXCEPT ![m].requests = Append(@, r),
                              ![m].arrivals = @ + 1]
        /\ req' = [req EXCEPT ![r].dest = m, ![r].ticket = mgr[m].arrivals + 1,
                              ![r].ahead = Len(mgr[m].requests),
                              ![r].phase = "enqueued"]
        /\ Returns(c, caller[c].op, m, r, Nil, NoErr)
        /\ UNCHANGED <<managersMap, state, loop, senders>>

\* manager.requests <- request: blocks while the mailbox is full.  Send
\* and SendRequest return; the awaiting calls go on to Wait.
Enqueue(c) ==
    LET m == caller[c].m
        r == caller[c].r
    IN  /\ caller[c].pc = "send"
        /\ Len(mgr[m].requests) < mgr[m].bufferSize
        /\ mgr' = [mgr EXCEPT ![m].requests = Append(@, r),
                              ![m].arrivals = @ + 1]
        /\ req' = [req EXCEPT ![r].dest = m, ![r].ticket = mgr[m].arrivals + 1,
                              ![r].ahead = Len(mgr[m].requests),
                              ![r].phase = "enqueued"]
        /\ IF caller[c].op \in {"Send", "SendRequest"}
             THEN Returns(c, caller[c].op, m, r, Nil, NoErr)
             ELSE Continues(c, "wait")
        /\ UNCHANGED <<managersMap, state, loop, senders>>

\* a Wait that reads the response and leaves it in the channel
WaitPeeks(c) ==
    LET r == caller[c].r
        got == getData(Head(req[r].response))
    IN  /\ caller[c].pc = "wait"
        /\ req[r].response # <<>>
        /\ req' = [req EXCEPT ![r].taken = @ + 1]
        /\ IF caller[c].op = "KillAndRemove" /\ got.Error = NoErr
             THEN Continues(c, "remove")
             ELSE Returns(c, caller[c].op, caller[c].m, r,
                          IF caller[c].op \in {"Kill", "KillAndRemove"} THEN Nil ELSE got.Data,
                          got.Error)
        /\ UNCHANGED <<managersMap, mgr, state, loop, senders>>

\* Request.Wait: response := <-request.response; return response.getData().
\* Await and Kill return it; KillAndRemove returns its error or goes on
\* to Remove.
Wait(c) ==
    LET r == caller[c].r
        got == getData(Head(req[r].response))
    IN  /\ caller[c].pc = "wait"
        /\ req[r].response # <<>>
        /\ req' = [req EXCEPT ![r].response = Tail(@), ![r].taken = @ + 1]
        /\ IF caller[c].op = "KillAndRemove" /\ got.Error = NoErr
             THEN Continues(c, "remove")
             ELSE Returns(c, caller[c].op, caller[c].m, r,
                          IF caller[c].op \in {"Kill", "KillAndRemove"} THEN Nil ELSE got.Data,
                          got.Error)
        /\ UNCHANGED <<managersMap, mgr, state, loop, senders>>

\* a test of the response channel that is true once the Request was sent
hasDataSent(r) == req[r].phase # "created"

\* Request.HasData: len(request.response) > 0
hasData(r) == Len(req[r].response) > 0

HasData(c, r) ==
    /\ Idle(c)
    /\ r \in Created
    /\ Returns(c, "HasData", NoMgr, r, BoolV(hasData(r)), NoErr)
    /\ UNCHANGED <<managersMap, mgr, req, state, loop, senders>>

\* Manager.Remove begins; by name, the binding finds the Manager first
Remove(c, t) ==
    /\ Idle(c)
    /\ \/ NotFound(c, "Remove", t)
       \/ /\ Resolve(t) # NoMgr
          /\ Goto(c, "remove", "Remove", Resolve(t), NoReq, NoArg)
          /\ UNCHANGED <<managersMap, mgr, req, state, loop, senders>>

\* a Remove that does not test IsRunning
removeUnchecked(m) == FALSE

\* Remove's test: if manager.IsRunning() { return the error }
removeRefused(m) == mgr[m].running

RemoveCheck(c) ==
    LET m == caller[c].m
    IN  /\ caller[c].pc = "remove"
        /\ IF removeRefused(m)
             THEN Returns(c, caller[c].op, m, NoReq, Nil, ErrRunning(mgr[m].Name))
             ELSE Continues(c, "delete")
        /\ UNCHANGED <<managersMap, mgr, req, state, loop, senders>>

\* deleteManager(manager.Name), under managersLock; Remove returns nil
deleteManager(managerName) ==
    managersMap' = [managersMap EXCEPT ![managerName] = NoMgr]

\* a Remove that also empties the mailbox and clears the table
RemoveDeleteClears(c) ==
    LET m == caller[c].m
    IN  /\ caller[c].pc = "delete"
        /\ deleteManager(mgr[m].Name)
        /\ mgr' = [mgr EXCEPT ![m].requests = <<>>,
                              ![m].functions = [rt \in DOMAIN @ |-> NoFn]]
        /\ Returns(c, caller[c].op, m, NoReq, Nil, NoErr)
        /\ UNCHANGED <<req, state, loop, senders>>

RemoveDelete(c) ==
    LET m == caller[c].m
    IN  /\ caller[c].pc = "delete"
        /\ deleteManager(mgr[m].Name)
        /\ Returns(c, caller[c].op, m, NoReq, Nil, NoErr)
        /\ UNCHANGED <<mgr, req, state, loop, senders>>


----------------------------------------------------------------------------
(* The specification *)

\* a Manager the way createHandledManager leaves it before Start: created
\* under a name, every test route attached
TestRoutes == [rt \in Routes |-> rt]

InitCreated ==
    /\ managersMap = [n \in Names |-> IF n = "A" THEN 1 ELSE NoMgr]
    /\ \E b \in BufSizes :
          mgr = <<[Name |-> "A", bufferSize |-> b, requests |-> <<>>,
                   running |-> FALSE, functions |-> TestRoutes, arrivals |-> 0]>>
    /\ req = <<>>
    /\ state = [m \in MgrIds |-> [k \in OwnedStates |-> InitialValue]]
    /\ loop = [l \in LoopIds |-> FreeLoop]
    /\ caller = [c \in CallerIds |-> IdleCaller]
    /\ ret = NoRet
    /\ senders = {}

\* a scenario that creates at most MaxLive Manager objects
NewManagerLive(c, name, bufferSize) ==
    /\ getManager(name) = NoMgr => Len(mgr) < MaxLive
    /\ NewManager(c, name, bufferSize)

\* Start the way the tests call it: on a Manager no loop is serving
StartIdle(c, t, s) ==
    /\ LoopsOf(Resolve(t)) = {}
    /\ Start(c, t, s)

\* callers start the Manager and send it increments, by handle and by name
Next ==
    \/ \E l \in LoopIds : SetRunning(l)
    \/ \E l \in LoopIds : Receive(l)
    \/ \E l \in LoopIds : Dispatch(l)
    \/ \E l \in LoopIds : HandlerReturns(l)
    \/ \E l \in LoopIds : Store(l)
    \/ \E c \in CallerIds : Enqueue(c)
    \/ \E c \in CallerIds : Wait(c)
    \/ \E c \in CallerIds, t \in Handles, s \in StateKeys : StartIdle(c, t, s)
    \/ \E c \in CallerIds, t \in Targets : Send(c, t, "inc", Nil)
    \/ \E c \in CallerIds, t \in Handles : Await(c, t, "inc", Nil)

Spec == InitCreated /\ [][Next]_vars

\* the same callers, with Start called whenever a caller likes
NextAnyStart ==
    \/ \E l \in LoopIds : SetRunning(l)
    \/ \E l \in LoopIds : Receive(l)
    \/ \E l \in LoopIds : Dispatch(l)
    \/ \E l \in LoopIds : HandlerReturns(l)
    \/ \E l \in LoopIds : Store(l)
    \/ \E c \in CallerIds : Enqueue(c)
    \/ \E c \in CallerIds : Wait(c)
    \/ \E c \in CallerIds, t \in Handles, s \in StateKeys : Start(c, t, s)
    \/ \E c \in CallerIds, t \in Handles : Send(c, t, "inc", Nil)
    \/ \E c \in CallerIds, t \in Handles : Await(c, t, "inc", Nil)

SpecAnyStart == InitCreated /\ [][NextAnyStart]_vars

\* callers set the state and read it back, by handle and by name
NextValues ==
    \/ \E l \in LoopIds : SetRunning(l)
    \/ \E l \in LoopIds : Receive(l)
    \/ \E l \in LoopIds : Dispatch(l)
    \/ \E l \in LoopIds : HandlerReturns(l)
    \/ \E l \in LoopIds : Store(l)
    \/ \E c \in CallerIds : Enqueue(c)
    \/ \E c \in CallerIds : Wait(c)
    \/ \E c \in CallerIds, t \in Handles, s \in StateKeys : StartIdle(c, t, s)
    \/ \E c \in CallerIds, t \in TargetsA, d \in DataVals : Send(c, t, "setValue", IntV(d))
    \/ \E c \in CallerIds, t \in TargetsA : Await(c, t, "square", Nil)
    \/ \E c \in CallerIds, t \in Handles : Await(c, t, "multiply", IntV(2))

SpecValues == InitCreated /\ [][NextValues]_vars

\* callers create, start, kill and remove Managers
NextLife ==
    \/ \E l \in LoopIds : SetRunning(l)
    \/ \E l \in LoopIds : Receive(l)
    \/ \E l \in LoopIds : StoreKill(l)
    \/ \E l \in LoopIds : ClearRunning(l)
    \/ \E c \in CallerIds : Enqueue(c)
    \/ \E c \in CallerIds : Wait(c)
    \/ \E c \in CallerIds : RemoveCheck(c)
    \/ \E c \in CallerIds : RemoveDelete(c)
    \/ \E c \in CallerIds : NewManagerLive(c, "A", MaxBuf)
    \/ \E c \in CallerIds, t \in TargetsA, s \in StateKeys : StartIdle(c, t, s)
    \/ \E c \in CallerIds, t \in Handles : Kill(c, t)
    \/ \E c \in CallerIds, t \in TargetsA : KillAndRemove(c, t)
    \/ \E c \in CallerIds, t \in TargetsA : Remove(c, t)

SpecLife == Init /\ [][NextLife]_vars

\* callers create Managers, attach and detach a route, start them and try
\* to remove them
NextRegistry ==
    \/ \E l \in LoopIds : SetRunning(l)
    \/ \E c \in CallerIds : RemoveCheck(c)
    \/ \E c \in CallerIds : RemoveDelete(c)
    \/ \E c \in CallerIds, name \in Names, b \in BufSizes : NewManagerLive(c, name, b)
    \/ \E c \in CallerIds, t \in Handles : Attach(c, t, "inc", "inc")
    \/ \E c \in CallerIds, t \in Handles : Detach(c, t, "inc")
    \/ \E c \in CallerIds, t \in Targets, s \in StateKeys : StartIdle(c, t, s)
    \/ \E c \in CallerIds, t \in Targets : Remove(c, t)

SpecRegistry == Init /\ [][NextRegistry]_vars

\* callers create Managers under the same names, look them up and attach
\* a route by name
NextCreate ==
    \/ \E c \in CallerIds, name \in Names, b \in BufSizes : NewManager(c, name, b)
    \/ \E c \in CallerIds, name \in Names : GetManager(c, name)
    \/ \E c \in CallerIds, t \in Targets : Attach(c, t, "inc", "inc")
    \/ \E c \in CallerIds : AttachByName(c)

SpecCreate == Init /\ [][NextCreate]_vars

\* callers send and await requests on a route that a Detach can take
\* away, and await an increment
NextRoutes ==
    \/ \E l \in LoopIds : SetRunning(l)
    \/ \E l \in LoopIds : Receive(l)
    \/ \E l \in LoopIds : Dispatch(l)
    \/ \E l \in LoopIds : HandlerReturns(l)
    \/ \E l \in LoopIds : Store(l)
    \/ \E c \in CallerIds : Enqueue(c)
    \/ \E c \in CallerIds : Wait(c)
    \/ \E c \in CallerIds, t \in Handles, s \in StateKeys : StartIdle(c, t, s)
    \/ \E c \in CallerIds, t \in Handles : Detach(c, t, "square")
    \/ \E c \in CallerIds, t \in Handles : Await(c, t, "inc", Nil)
    \/ \E c \in CallerIds, t \in Handles : Send(c, t, "square", Nil)
    \/ \E c \in CallerIds, t \in Handles : Await(c, t, "square", Nil)

SpecRoutes == InitCreated /\ [][NextRoutes]_vars

\* callers await an increment, a route that a Detach can take away, and a
\* multiplication whose payload is of the wrong type
NextErrors ==
    \/ \E l \in LoopIds : SetRunning(l)
    \/ \E l \in LoopIds : Receive(l)
    \/ \E l \in LoopIds : Dispatch(l)
    \/ \E l \in LoopIds : HandlerReturns(l)
    \/ \E l \in LoopIds : Store(l)
    \/ \E c \in CallerIds : Enqueue(c)
    \/ \E c \in CallerIds : Wait(c)
    \/ \E c \in CallerIds, t \in Handles, s \in StateKeys : StartIdle(c, t, s)
    \/ \E c \in CallerIds, t \in Handles : Detach(c, t, "square")
    \/ \E c \in CallerIds, t \in Handles : Await(c, t, "inc", Nil)
    \/ \E c \in CallerIds, t \in Handles : Await(c, t, "square", Nil)
    \/ \E c \in CallerIds, t \in Handles : Await(c, t, "multiply", Nil)

SpecErrors == InitCreated /\ [][NextErrors]_vars

\* the values a handler hands back inside a channel or a nested response
NestedVals == {Chan(IntV(1)), Resp(Resp(IntV(2))), Resp(ErrV(1))}

\* callers await a handler that returns channels and nested responses
NextNested ==
    \/ \E l \in LoopIds : SetRunning(l)
    \/ \E l \in LoopIds : Receive(l)
    \/ \E l \in LoopIds : Dispatch(l)
    \/ \E l \in LoopIds : HandlerReturns(l)
    \/ \E l \in LoopIds : Store(l)
    \/ \E c \in CallerIds : Enqueue(c)
    \/ \E c \in CallerIds : Wait(c)
    \/ \E c \in CallerIds, t \in Handles, s \in StateKeys : StartIdle(c, t, s)
    \/ \E c \in CallerIds, t \in Handles, x \in NestedVals : Await(c, t, "relay", x)

SpecNested == InitCreated /\ [][NextNested]_vars

\* callers await increments, and queue again the Requests they hold
NextResend ==
    \/ \E l \in LoopIds : SetRunning(l)
    \/ \E l \in LoopIds : Receive(l)
    \/ \E l \in LoopIds : Dispatch(l)
    \/ \E l \in LoopIds : HandlerReturns(l)
    \/ \E l \in LoopIds : Store(l)
    \/ \E c \in CallerIds : Enqueue(c)
    \/ \E c \in CallerIds : Wait(c)
    \/ \E c \in CallerIds, t \in Handles, s \in StateKeys : StartIdle(c, t, s)
    \/ \E c \in CallerIds, t \in Handles : Await(c, t, "inc", Nil)
    \/ \E c \in CallerIds, t \in Handles, r \in Created : SendRequest(c, t, r)
    \/ \E c \in CallerIds, t \in Handles, r \in Created : AwaitRequest(c, t, r)

SpecResend == InitCreated /\ [][NextResend]_vars

\* callers send and await increments, and poll the Requests with HasData
NextPoll ==
    \/ \E l \in LoopIds : SetRunning(l)
    \/ \E l \in LoopIds : Receive(l)
    \/ \E l \in LoopIds : Dispatch(l)
    \/ \E l \in LoopIds : HandlerReturns(l)
    \/ \E l \in LoopIds : Store(l)
    \/ \E c \in CallerIds : Enqueue(c)
    \/ \E c \in CallerIds : Wait(c)
    \/ \E c \in CallerIds, t \in Handles, s \in StateKeys : StartIdle(c, t, s)
    \/ \E c \in CallerIds, t \in Handles : Send(c, t, "inc", Nil)
    \/ \E c \in CallerIds, t \in Handles : Await(c, t, "inc", Nil)
    \/ \E c \in CallerIds, r \in Created : HasData(c, r)

SpecPoll == InitCreated /\ [][NextPoll]_vars

\* how the package's bindings name a Manager: by a name, held or not
ByName == [via : {"name"}, m : {NoMgr}, name : Names]

\* the name that no Manager is created under
Absent == [via |-> "name", m |-> NoMgr, name |-> "B"]

\* the Manager "A" is started, awaited and removed by name, and every
\* binding is called with the name "B"
NextNotFound ==
    \/ \E l \in LoopIds : SetRunning(l)
    \/ \E l \in LoopIds : Receive(l)
    \/ \E l \in LoopIds : Dispatch(l)
    \/ \E l \in LoopIds : HandlerReturns(l)
    \/ \E l \in LoopIds : Store(l)
    \/ \E c \in CallerIds : Enqueue(c)
    \/ \E c \in CallerIds : Wait(c)
    \/ \E c \in CallerIds : RemoveCheck(c)
    \/ \E c \in CallerIds : RemoveDelete(c)
    \/ \E c \in CallerIds, t \in ByName : Await(c, t, "inc", Nil)
    \/ \E c \in CallerIds, t \in ByName, s \in StateKeys : StartIdle(c, t, s)
    \/ \E c \in CallerIds, t \in ByName : Remove(c, t)
    \/ \E c \in CallerIds : Send(c, Absent, "inc", Nil)
    \/ \E c \in CallerIds, r \in Created : SendRequest(c, Absent, r)
    \/ \E c \in CallerIds, r \in Created : AwaitRequest(c, Absent, r)
    \/ \E c \in CallerIds : Attach(c, Absent, "inc", "inc")
    \/ \E c \in CallerIds : Detach(c, Absent, "square")
    \/ \E c \in CallerIds : GetManager(c, "B")
    \/ \E c \in CallerIds : Kill(c, Absent)
    \/ \E c \in CallerIds : KillAndRemove(c, Absent)

SpecNotFound == InitCreated /\ [][NextNotFound]_vars

\* a loop of Manager m has received a kill request
Consumed(m) ==
    \E k \in Created :
        /\ req[k].Route = KillRoute
        /\ req[k].dest = m
        /\ req[k].phase \in {"received", "responded"}

\* Start called once in the life of a Manager: no loop serves it and no
\* loop has been killed
StartOnce(c, t, s) ==
    /\ ~Consumed(Resolve(t))
    /\ StartIdle(c, t, s)

\* the Manager is started once; callers await increments, Kill and
\* KillAndRemove, before and after the loop has gone
NextStop ==
    \/ \E l \in LoopIds : SetRunning(l)
    \/ \E l \in LoopIds : Receive(l)
    \/ \E l \in LoopIds : StoreKill(l)
    \/ \E l \in LoopIds : Dispatch(l)
    \/ \E l \in LoopIds : HandlerReturns(l)
    \/ \E l \in LoopIds : Store(l)
    \/ \E l \in LoopIds : ClearRunning(l)
    \/ \E c \in CallerIds : Enqueue(c)
    \/ \E c \in CallerIds : Wait(c)
    \/ \E c \in CallerIds : RemoveCheck(c)
    \/ \E c \in CallerIds : RemoveDelete(c)
    \/ \E c \in CallerIds, t \in Handles, s \in StateKeys : StartOnce(c, t, s)
    \/ \E c \in CallerIds, t \in Handles : Await(c, t, "inc", Nil)
    \/ \E c \in CallerIds, t \in Handles : Kill(c, t)
    \/ \E c \in CallerIds, t \in Handles : KillAndRemove(c, t)

SpecStop == InitCreated /\ [][NextStop]_vars

\* callers call Start and Kill as often as they like, and read IsRunning
NextRestart ==
    \/ \E l \in LoopIds : SetRunning(l)
    \/ \E l \in LoopIds : Receive(l)
    \/ \E l \in LoopIds : StoreKill(l)
    \/ \E l \in LoopIds : ClearRunning(l)
    \/ \E c \in CallerIds : Enqueue(c)
    \/ \E c \in CallerIds : Wait(c)
    \/ \E c \in CallerIds, t \in Handles, s \in StateKeys : Start(c, t, s)
    \/ \E c \in CallerIds, t \in Handles : Kill(c, t)
    \/ \E c \in CallerIds, m \in Allocated : IsRunning(c, m)

SpecRestart == InitCreated /\ [][NextRestart]_vars

\* the values that the README gives managers.LOG_PROCESSING_ERRORS: true
\* (the default) and false.  The package has no such variable.
LogSettings == BOOLEAN

\* the route whose entry the callers change while it is in use
ChangedRoute == "square"

\* callers send the route "square" while others attach the handler relay
\* to it and detach it
NextTable ==
    \/ \E l \in LoopIds : SetRunning(l)
    \/ \E l \in LoopIds : Receive(l)
    \/ \E l \in LoopIds : Dispatch(l)
    \/ \E l \in LoopIds : HandlerReturns(l)
    \/ \E l \in LoopIds : Store(l)
    \/ \E c \in CallerIds : Enqueue(c)
    \/ \E c \in CallerIds, t \in Handles, s \in StateKeys : StartIdle(c, t, s)
    \/ \E c \in CallerIds, t \in Handles : Send(c, t, ChangedRoute, Nil)
    \/ \E c \in CallerIds, t \in Handles : Attach(c, t, ChangedRoute, "relay")
    \/ \E c \in CallerIds, t \in Handles : Detach(c, t, ChangedRoute)

SpecTable == InitCreated /\ [][NextTable]_vars

----------------------------------------------------------------------------
(* The locks: every critical section as its Lock, its body and its Unlock *)

\* var managersLock, and the stateLock of Manager m
ManagersLock == [lock |-> "managersLock", m |-> NoMgr]
StateLock(m) == [lock |-> "stateLock", m |-> m]

\* the goroutines that hold the lock lk
Holding(lk) ==
    {<<"loop", l>> : l \in {x \in LoopIds : lk \in loop[x].held}}
        \cup {<<"caller", c>> : c \in {x \in CallerIds : lk \in caller[x].held}}

\* sync.Mutex.Lock returns when nobody holds the lock
Free(lk) == Holding(lk) = {}

\* Start: manager.stateLock.Lock()
LockStart(l) ==
    /\ loop[l].pc = "start"
    /\ Free(StateLock(loop[l].m))
    /\ loop' = [loop EXCEPT ![l].pc = "start.cs",
                            ![l].held = @ \cup {StateLock(loop[l].m)}]
    /\ UNCHANGED <<managersMap, mgr, req, state, caller, senders>>
    /\ ret' = NoRet

\* Start: manager.running = true; manager.stateLock.Unlock()
SetRunningUnlock(l) ==
    /\ loop[l].pc = "start.cs"
    /\ mgr' = [mgr EXCEPT ![loop[l].m].running = TRUE]
    /\ loop' = [loop EXCEPT ![l].pc = "recv",
                            ![l].held = @ \ {StateLock(loop[l].m)}]
    /\ UNCHANGED <<managersMap, req, state, caller, senders>>
    /\ ret' = NoRet

\* getFunction: manager.stateLock.Lock()
LockLookup(l) ==
    /\ loop[l].pc = "lookup"
    /\ Free(StateLock(loop[l].m))
    /\ loop' = [loop EXCEPT ![l].pc = "lookup.cs",
                            ![l].held = @ \cup {StateLock(loop[l].m)}]
    /\ UNCHANGED <<managersMap, mgr, req, state, caller, senders>>
    /\ ret' = NoRet

\* a getFunction that returns with stateLock held
DispatchLocked(l) ==
    LET m == loop[l].m
        r == loop[l].r
        fn == mgr[m].functions[req[r].Route]
        response == responseStruct(Nil, ErrNoFunction(req[r].Route, mgr[m].Name))
    IN  /\ loop[l].pc = "lookup.cs"
        /\ IF fn = NoFn
             THEN /\ loop' = [loop EXCEPT ![l].pc = "store",
                                          ![l].response = response]
                  /\ req' = [req EXCEPT ![r].phase = "dispatched",
                                        ![r].printed = Println(r, response)]
             ELSE /\ loop' = [loop EXCEPT ![l].pc = "handler", ![l].fn = fn,
                                          ![l].read = state[m][loop[l].s]]
                  /\ req' = [req EXCEPT ![r].phase = "dispatched", ![r].fn = fn,
                                        ![r].read = state[m][loop[l].s]]
        /\ UNCHANGED <<managersMap, mgr, state, caller, senders>>
        /\ ret' = NoRet

\* getFunction: the read of manager.functions and the deferred Unlock; then
\* the error response, or the call of the handler
DispatchUnlock(l) ==
    LET m == loop[l].m
        r == loop[l].r
        fn == mgr[m].functions[req[r].Route]
        response == responseStruct(Nil, ErrNoFunction(req[r].Route, mgr[m].Name))
    IN  /\ loop[l].pc = "lookup.cs"
        /\ IF fn = NoFn
             THEN /\ loop' = [loop EXCEPT ![l].pc = "store",
                                          ![l].response = response,
                                          ![l].held = @ \ {StateLock(m)}]
                  /\ req' = [req EXCEPT ![r].phase = "dispatched",
                                        ![r].printed = Println(r, response)]
             ELSE /\ loop' = [loop EXCEPT ![l].pc = "handler", ![l].fn = fn,
                                          ![l].read = state[m][loop[l].s],
                                          ![l].held = @ \ {StateLock(m)}]
                  /\ req' = [req EXCEPT ![r].phase = "dispatched", ![r].fn = fn,
                                        ![r].read = state[m][loop[l].s]]
        /\ UNCHANGED <<managersMap, mgr, state, caller, senders>>
        /\ ret' = NoRet

\* the calls a handler makes on the package while it runs
HandlerCalls == {"Attach", "GetManager"}

\* the lock that guards what a call touches: the registry or the Manager
LockOf(op, m) == IF op = "GetManager" THEN ManagersLock ELSE StateLock(m)

\* the handler calls Attach of its own Manager, or GetManager: it stands
\* before the Lock of that call
HandlerCall(l, op) ==
    /\ loop[l].pc = "handler"
    /\ loop[l].call = ""
    /\ loop' = [loop EXCEPT ![l].call = op]
    /\ UNCHANGED <<managersMap, mgr, req, state, caller, senders>>
    /\ ret' = NoRet

\* the Lock of the call the handler makes
HandlerLock(l) ==
    LET lk == LockOf(loop[l].call, loop[l].m)
    IN  /\ loop[l].pc = "handler"
        /\ loop[l].call # ""
        /\ lk \notin loop[l].held
        /\ Free(lk)
        /\ loop' = [loop EXCEPT ![l].held = @ \cup {lk}]
        /\ UNCHANGED <<managersMap, mgr, req, state, caller, senders>>
        /\ ret' = NoRet

\* the body and the Unlock of the call the handler makes: Attach writes
\* the entry of the request's route, GetManager only reads
HandlerUnlock(l) ==
    LET m == loop[l].m
        lk == LockOf(loop[l].call, m)
        route == req[loop[l].r].Route
    IN  /\ loop[l].pc = "handler"
        /\ loop[l].call # ""
        /\ lk \in loop[l].held
        /\ IF loop[l].call = "Attach"
             THEN attach(m, route, "relay")
             ELSE mgr' = mgr
        /\ loop' = [loop EXCEPT ![l].held = @ \ {lk}, ![l].call = ""]
        /\ UNCHANGED <<managersMap, req, state, caller, senders>>
        /\ ret' = NoRet

\* the handler returns once the call it made has returned
HandlerDone(l) ==
    /\ loop[l].call = ""
    /\ HandlerReturns(l)

\* Start, after the loop: manager.stateLock.Lock()
LockExit(l) ==
    /\ loop[l].pc = "exit"
    /\ Free(StateLock(loop[l].m))
    /\ loop' = [loop EXCEPT ![l].pc = "exit.cs",
                            ![l].held = @ \cup {StateLock(loop[l].m)}]
    /\ UNCHANGED <<managersMap, mgr, req, state, caller, senders>>
    /\ ret' = NoRet

\* Start: manager.running = false; manager.stateLock.Unlock(); return
ClearRunningUnlock(l) ==
    /\ loop[l].pc = "exit.cs"
    /\ mgr' = [mgr EXCEPT ![loop[l].m].running = FALSE]
    /\ loop' = [loop EXCEPT ![l] = FreeLoop]
    /\ UNCHANGED <<managersMap, req, state, caller, senders>>
    /\ ret' = NoRet

\* a caller calls Attach, Detach, IsRunning, GetManager or Remove with
\* the handle of a Manager: it stands before the Lock of the call
Call(c, op, m, arg) ==
    /\ Idle(c)
    /\ m \in Allocated
    /\ caller' = [caller EXCEPT ![c] =
          [pc |-> "lock", op |-> op, m |-> m, r |-> NoReq, arg |-> arg,
           held |-> {}]]
    /\ UNCHANGED <<managersMap, mgr, req, state, loop, senders>>
    /\ ret' = NoRet

\* the lock the caller's call takes next
Wanted(c) ==
    IF caller[c].pc = "lock2" THEN ManagersLock
                              ELSE LockOf(caller[c].op, caller[c].m)

\* the Lock of the call; of Remove, the Lock inside IsRunning
CallLock(c) ==
    /\ caller[c].pc = "lock"
    /\ Free(Wanted(c))
    /\ caller' = [caller EXCEPT ![c].pc = "cs", ![c].held = @ \cup {Wanted(c)}]
    /\ UNCHANGED <<managersMap, mgr, req, state, loop, senders>>
    /\ ret' = NoRet

\* the body of the call and its Unlock.  Attach and Detach write the
\* table; IsRunning and GetManager return what they read; Remove returns
\* the error if IsRunning was true and goes on to deleteManager if not.
CallUnlock(c) ==
    LET m == caller[c].m
        op == caller[c].op
    IN  /\ caller[c].pc = "cs"
        /\ CASE op \in {"Attach", "Detach"} ->
                  /\ attach(m, caller[c].arg.route, caller[c].arg.fn)
                  /\ Returns(c, op, m, NoReq, Nil, NoErr)
             [] op = "IsRunning" ->
                  /\ Returns(c, op, m, NoReq, BoolV(mgr[m].running), NoErr)
                  /\ mgr' = mgr
             [] op = "GetManager" ->
                  /\ IF getManager(mgr[m].Name) = NoMgr
                       THEN Returns(c, op, NoMgr, NoReq, Nil, ErrNotFound(mgr[m].Name))
                       ELSE Returns(c, op, getManager(mgr[m].Name), NoReq, Nil, NoErr)
                  /\ mgr' = mgr
             [] op = "Remove" ->
                  /\ IF mgr[m].running
                       THEN Returns(c, op, m, NoReq, Nil, ErrRunning(mgr[m].Name))
                       ELSE /\ caller' = [caller EXCEPT ![c].pc = "lock2",
                                                        ![c].held = {}]
                            /\ ret' = NoRet
                  /\ mgr' = mgr
        /\ UNCHANGED <<managersMap, req, state, loop, senders>>

\* deleteManager: managersLock.Lock()
RemoveLock(c) ==
    /\ caller[c].pc = "lock2"
    /\ Free(Wanted(c))
    /\ caller' = [caller EXCEPT ![c].pc = "cs2", ![c].held = @ \cup {Wanted(c)}]
    /\ UNCHANGED <<managersMap, mgr, req, state, loop, senders>>
    /\ ret' = NoRet

\* deleteManager: delete(managersMap, managerName) and the deferred
\* Unlock; Remove returns nil
RemoveUnlock(c) ==
    /\ caller[c].pc = "cs2"
    /\ deleteManager(mgr[caller[c].m].Name)
    /\ Returns(c, caller[c].op, caller[c].m, NoReq, Nil, NoErr)
    /\ UNCHANGED <<mgr, req, state, loop, senders>>

\* the loop and the callers with every Lock and Unlock as a step: the
\* callers await the route "relay", whose handler calls Attach and
\* GetManager, kill the loop, and call Detach and Remove
NextLocks ==
    \/ \E l \in LoopIds : LockStart(l)
    \/ \E l \in LoopIds : SetRunningUnlock(l)
    \/ \E l \in LoopIds : Receive(l)
    \/ \E l \in LoopIds : StoreKill(l)
    \/ \E l \in LoopIds : LockLookup(l)
    \/ \E l \in LoopIds : DispatchUnlock(l)
    \/ \E l \in LoopIds, op \in HandlerCalls : HandlerCall(l, op)
    \/ \E l \in LoopIds : HandlerLock(l)
    \/ \E l \in LoopIds : HandlerUnlock(l)
    \/ \E l \in LoopIds : HandlerDone(l)
    \/ \E l \in LoopIds : Store(l)
    \/ \E l \in LoopIds : LockExit(l)
    \/ \E l \in LoopIds : ClearRunningUnlock(l)
    \/ \E c \in CallerIds : Enqueue(c)
    \/ \E c \in CallerIds : Wait(c)
    \/ \E c \in CallerIds, t \in Handles, s \in StateKeys : StartOnce(c, t, s)
    \/ \E c \in CallerIds, t \in Handles : Await(c, t, "relay", Nil)
    \/ \E c \in CallerIds, t \in Handles : Kill(c, t)
    \/ \E c \in CallerIds, m \in Allocated :
          Call(c, "Detach", m, [route |-> "relay", fn |-> NoFn])
    \/ \E c \in CallerIds, m \in Allocated : Call(c, "Remove", m, NoArg)
    \/ \E c \in CallerIds : CallLock(c)
    \/ \E c \in CallerIds : CallUnlock(c)
    \/ \E c \in CallerIds : RemoveLock(c)
    \/ \E c \in CallerIds : RemoveUnlock(c)

SpecLocks == InitCreated /\ [][NextLocks]_vars

----------------------------------------------------------------------------
(* The fair specification *)

\* the Manager is started once; callers await increments and kill the loop
NextFair ==
    \/ \E l \in LoopIds : SetRunning(l)
    \/ \E l \in LoopIds : Receive(l)
    \/ \E l \in LoopIds : StoreKill(l)
    \/ \E l \in LoopIds : Dispatch(l)
    \/ \E l \in LoopIds : HandlerReturns(l)
    \/ \E l \in LoopIds : Store(l)
    \/ \E l \in LoopIds : ClearRunning(l)
    \/ \E c \in CallerIds : Enqueue(c)
    \/ \E c \in CallerIds : Wait(c)
    \/ \E c \in CallerIds, t \in Handles, s \in StateKeys : StartOnce(c, t, s)
    \/ \E c \in CallerIds, t \in Handles : Await(c, t, "inc", Nil)
    \/ \E c \in CallerIds, t \in Handles : Kill(c, t)

\* the Go scheduler runs every goroutine that can run: a loop that can
\* take a step takes one, a handler that was called returns, and a caller
\* whose send or receive can proceed proceeds.  Nothing obliges a caller
\* to call Start, Send, Await or Kill.
Fairness ==
    /\ \A l \in LoopIds :
          WF_vars(\/ SetRunning(l) \/ Receive(l) \/ StoreKill(l) \/ Dispatch(l)
                  \/ HandlerReturns(l) \/ Store(l) \/ ClearRunning(l))
    /\ \A c \in CallerIds : WF_vars(Enqueue(c))
    /\ \A c \in CallerIds : WF_vars(Wait(c))

SpecFair == InitCreated /\ [][NextFair]_vars /\ Fairness

\* the keys a caller may attach a handler under: the test routes and the
\* route that Kill sends
AllRoutes == Routes \cup {KillRoute}

\* the Manager "A" with a table that can hold a handler under the kill route
InitReserved ==
    /\ managersMap = [n \in Names |-> IF n = "A" THEN 1 ELSE NoMgr]
    /\ \E b \in BufSizes :
          mgr = <<[Name |-> "A", bufferSize |-> b, requests |-> <<>>,
                   running |-> FALSE,
                   functions |-> [rt \in AllRoutes |->
                                     IF rt = KillRoute THEN NoFn ELSE rt],
                   arrivals |-> 0]>>
    /\ req = <<>>
    /\ state = [m \in MgrIds |-> [k \in OwnedStates |-> InitialValue]]
    /\ loop = [l \in LoopIds |-> FreeLoop]
    /\ caller = [c \in CallerIds |-> IdleCaller]
    /\ ret = NoRet
    /\ senders = {}

\* callers attach the handler square under the kill route, and call Kill,
\* KillAndRemove and Await on that route, besides an ordinary Await
NextReserved ==
    \/ \E l \in LoopIds : SetRunning(l)
    \/ \E l \in LoopIds : Receive(l)
    \/ \E l \in LoopIds : StoreKill(l)
    \/ \E l \in LoopIds : Dispatch(l)
    \/ \E l \in LoopIds : HandlerReturns(l)
    \/ \E l \in LoopIds : Store(l)
    \/ \E l \in LoopIds : ClearRunning(l)
    \/ \E c \in CallerIds : Enqueue(c)
    \/ \E c \in CallerIds : Wait(c)
    \/ \E c \in CallerIds : RemoveCheck(c)
    \/ \E c \in CallerIds : RemoveDelete(c)
    \/ \E c \in CallerIds, t \in Handles, s \in StateKeys : StartOnce(c, t, s)
    \/ \E c \in CallerIds, t \in Handles : Attach(c, t, KillRoute, "square")
    \/ \E c \in CallerIds, t \in Handles : Await(c, t, "square", Nil)
    \/ \E c \in CallerIds, t \in Handles : Await(c, t, KillRoute, IntV(1))
    \/ \E c \in CallerIds, t \in Handles : Kill(c, t)
    \/ \E c \in CallerIds, t \in Handles : KillAndRemove(c, t)

SpecReserved == InitReserved /\ [][NextReserved]_vars

\* the name of the Manager of the scenario
NameA == [via |-> "name", m |-> NoMgr, name |-> "A"]

\* the Manager "A" is sent requests by name, started and removed; the
\* requests are sent again by handle, before and after the removal
NextRemove ==
    \/ \E l \in LoopIds : SetRunning(l)
    \/ \E c \in CallerIds : Enqueue(c)
    \/ \E c \in CallerIds : RemoveCheck(c)
    \/ \E c \in CallerIds : RemoveDelete(c)
    \/ \E c \in CallerIds, t \in Handles, s \in StateKeys : StartIdle(c, t, s)
    \/ \E c \in CallerIds : Send(c, NameA, "inc", Nil)
    \/ \E c \in CallerIds, t \in Handles, r \in Created : SendRequest(c, t, r)
    \/ \E c \in CallerIds, t \in Handles : Detach(c, t, "square")
    \/ \E c \in CallerIds, t \in Targets : Remove(c, t)

SpecRemove == InitCreated /\ [][NextRemove]_vars

\* the handle of Manager m
Handle(m) == [via |-> "handle", m |-> m, name |-> ""]

\* two Managers created by createPublicManager, one under each name
InitPair ==
    /\ managersMap = [n \in Names |-> IF n = "A" THEN 1 ELSE 2]
    /\ mgr = <<[Name |-> "A", bufferSize |-> 1, requests |-> <<>>,
                running |-> FALSE, functions |-> TestRoutes, arrivals |-> 0],
               [Name |-> "B", bufferSize |-> 1, requests |-> <<>>,
                running |-> FALSE, functions |-> TestRoutes, arrivals |-> 0]>>
    /\ req = <<>>
    /\ state = [m \in MgrIds |-> [k \in OwnedStates |-> InitialValue]]
    /\ loop = [l \in LoopIds |-> FreeLoop]
    /\ caller = [c \in CallerIds |-> IdleCaller]
    /\ ret = NoRet
    /\ senders = {}

NameB == [via |-> "name", m |-> NoMgr, name |-> "B"]

\* every binding is called with the name "B"; the loops that are started
\* set the running flag and take no request
NextFacade ==
    \/ \E l \in LoopIds : SetRunning(l)
    \/ \E c \in CallerIds : Enqueue(c)
    \/ \E c \in CallerIds : AttachByName(c)
    \/ \E c \in CallerIds : RemoveCheck(c)
    \/ \E c \in CallerIds : RemoveDelete(c)
    \/ \E c \in CallerIds : Send(c, NameB, "inc", Nil)
    \/ \E c \in CallerIds : Await(c, NameB, "inc", Nil)
    \/ \E c \in CallerIds, r \in Created : SendRequest(c, NameB, r)
    \/ \E c \in CallerIds, r \in Created : AwaitRequest(c, NameB, r)
    \/ \E c \in CallerIds : Attach(c, NameB, "inc", "inc")
    \/ \E c \in CallerIds : Detach(c, NameB, "inc")
    \/ \E c \in CallerIds, s \in StateKeys : StartIdle(c, NameB, s)
    \/ \E c \in CallerIds : Kill(c, NameB)
    \/ \E c \in CallerIds : Remove(c, NameB)
    \/ \E c \in CallerIds : KillAndRemove(c, NameB)

SpecFacade == InitPair /\ [][NextFacade]_vars

\* the Manager named "A" is removed and a new Manager is created under the
\* same name, while the handle of the first is kept and Remove called on it
NextRecreate ==
    \/ \E c \in CallerIds : Enqueue(c)
    \/ \E c \in CallerIds : RemoveCheck(c)
    \/ \E c \in CallerIds : RemoveDelete(c)
    \/ \E c \in CallerIds, b \in BufSizes : NewManager(c, "A", b)
    \/ \E c \in CallerIds : Send(c, NameA, "inc", Nil)
    \/ \E c \in CallerIds, t \in Handles : Remove(c, t)

SpecRecreate == InitCreated /\ [][NextRecreate]_vars

\* the Manager is started once and callers call Kill on it, under the
\* scheduling of SpecFair
NextKills ==
    \/ \E l \in LoopIds : SetRunning(l)
    \/ \E l \in LoopIds : Receive(l)
    \/ \E l \in LoopIds : StoreKill(l)
    \/ \E l \in LoopIds : Dispatch(l)
    \/ \E l \in LoopIds : HandlerReturns(l)
    \/ \E l \in LoopIds : Store(l)
    \/ \E l \in LoopIds : ClearRunning(l)
    \/ \E c \in CallerIds : Enqueue(c)
    \/ \E c \in CallerIds : Wait(c)
    \/ \E c \in CallerIds, t \in Handles, s \in StateKeys : StartOnce(c, t, s)
    \/ \E c \in CallerIds, t \in Handles : Send(c, t, "inc", Nil)
    \/ \E c \in CallerIds, t \in Handles : Kill(c, t)

SpecKills == InitCreated /\ [][NextKills]_vars /\ Fairness

\* the state handed to Start: one state before the first Kill, another
\* state to every Start that follows a Kill
StateFor(m) == IF Consumed(m) THEN "s2" ELSE "s1"

\* Start, Kill and Start again, on a Manager no loop is serving, while
\* callers await increments, and detach the route between a Kill and the
\* Start that follows; scheduling as in SpecFair
NextRevive ==
    \/ \E l \in LoopIds : SetRunning(l)
    \/ \E l \in LoopIds : Receive(l)
    \/ \E l \in LoopIds : StoreKill(l)
    \/ \E l \in LoopIds : Dispatch(l)
    \/ \E l \in LoopIds : HandlerReturns(l)
    \/ \E l \in LoopIds : Store(l)
    \/ \E l \in LoopIds : ClearRunning(l)
    \/ \E c \in CallerIds : Enqueue(c)
    \/ \E c \in CallerIds : Wait(c)
    \/ \E c \in CallerIds, t \in Handles : StartIdle(c, t, StateFor(t.m))
    \/ \E c \in CallerIds, t \in Handles : Await(c, t, "inc", Nil)
    \/ \E c \in CallerIds, t \in Handles : Kill(c, t)
    \/ \E t \in Handles :
          LoopsOf(t.m) = {} /\ Consumed(t.m) /\ Detach("c1", t, "inc")

SpecRevive == InitCreated /\ [][NextRevive]_vars /\ Fairness

\* Start has not been called on Manager m
Unstarted(m) == LoopsOf(m) = {} /\ ~Consumed(m)

\* callers send increments and call Kill before Start is called, once;
\* IsRunning is called at any time; scheduling as in SpecFair
NextLate ==
    \/ \E l \in LoopIds : SetRunning(l)
    \/ \E l \in LoopIds : Receive(l)
    \/ \E l \in LoopIds : StoreKill(l)
    \/ \E l \in LoopIds : Dispatch(l)
    \/ \E l \in LoopIds : HandlerReturns(l)
    \/ \E l \in LoopIds : Store(l)
    \/ \E l \in LoopIds : ClearRunning(l)
    \/ \E c \in CallerIds : Enqueue(c)
    \/ \E c \in CallerIds : Wait(c)
    \/ \E c \in CallerIds, t \in Handles, s \in StateKeys : StartOnce(c, t, s)
    \/ \E c \in CallerIds, t \in Handles : Unstarted(t.m) /\ Send(c, t, "inc", Nil)
    \/ \E c \in CallerIds, t \in Handles : Unstarted(t.m) /\ Kill(c, t)
    \/ \E c \in CallerIds, m \in Allocated : IsRunning(c, m)

SpecLate == InitCreated /\ [][NextLate]_vars /\ Fairness

\* Request.Wait called on a Request the caller holds: the receive on the
\* response channel is the step Wait
WaitRequest(c, r) ==
    /\ Idle(c)
    /\ r \in Created
    /\ Goto(c, "wait", "Wait", req[r].dest, r, NoArg)
    /\ UNCHANGED <<managersMap, mgr, req, state, loop, senders>>

\* one caller sends increments, once each; callers call Wait on the Requests that
\* were sent, any number of times, and HasData on those whose response was
\* taken; scheduling as in SpecFair
NextWait ==
    \/ \E l \in LoopIds : SetRunning(l)
    \/ \E l \in LoopIds : Receive(l)
    \/ \E l \in LoopIds : Dispatch(l)
    \/ \E l \in LoopIds : HandlerReturns(l)
    \/ \E l \in LoopIds : Store(l)
    \/ \E c \in CallerIds : Enqueue(c)
    \/ \E c \in CallerIds : Wait(c)
    \/ \E t \in Handles, s \in StateKeys : StartOnce("c1", t, s)
    \/ \E t \in Handles : Send("c1", t, "inc", Nil)
    \/ \E c \in CallerIds, r \in Created :
          req[r].phase # "created" /\ WaitRequest(c, r)
    \/ \E c \in CallerIds, r \in Created : req[r].taken > 0 /\ HasData(c, r)

SpecWait == InitCreated /\ [][NextWait]_vars /\ Fairness

\* the handler calls Await or Kill of Manager m2: it makes the Request
\* and stands before the send on the mailbox of m2
HandlerAwait(l, m2, route) ==
    /\ loop[l].pc = "handler"
    /\ loop[l].call = ""
    /\ m2 \in Allocated
    /\ Len(req) < MaxReq
    /\ req' = Append(req, NewRequest(route, Nil))
    /\ loop' = [loop EXCEPT ![l].call = "send", ![l].sub = Len(req) + 1, ![l].to = m2]
    /\ UNCHANGED <<managersMap, mgr, state, caller, senders>>
    /\ ret' = NoRet

\* the handler's send on the mailbox: manager.requests <- request
HandlerEnqueue(l) ==
    LET m2 == loop[l].to
        r == loop[l].sub
    IN  /\ loop[l].pc = "handler"
        /\ loop[l].call = "send"
        /\ Len(mgr[m2].requests) < mgr[m2].bufferSize
        /\ mgr' = [mgr EXCEPT ![m2].requests = Append(@, r),
                              ![m2].arrivals = @ + 1]
        /\ req' = [req EXCEPT ![r].dest = m2, ![r].ticket = mgr[m2].arrivals + 1,
                              ![r].ahead = Len(mgr[m2].requests),
                              ![r].phase = "enqueued"]
        /\ loop' = [loop EXCEPT ![l].call = "wait"]
        /\ UNCHANGED <<managersMap, state, caller, senders>>
        /\ ret' = NoRet

\* a handler whose Await returns without a response
HandlerWaitNow(l) ==
    /\ loop[l].pc = "handler"
    /\ loop[l].call = "wait"
    /\ loop' = [loop EXCEPT ![l].call = "", ![l].sub = NoReq, ![l].to = NoMgr]
    /\ UNCHANGED <<managersMap, mgr, req, state, caller, senders>>
    /\ ret' = NoRet

\* the handler's request.Wait(): it takes the response of its Request,
\* and the call it made has returned
HandlerWait(l) ==
    LET r == loop[l].sub
    IN  /\ loop[l].pc = "handler"
        /\ loop[l].call = "wait"
        /\ req[r].response # <<>>
        /\ req' = [req EXCEPT ![r].response = Tail(@), ![r].taken = @ + 1]
        /\ loop' = [loop EXCEPT ![l].call = "", ![l].sub = NoReq, ![l].to = NoMgr]
        /\ UNCHANGED <<managersMap, mgr, state, caller, senders>>
        /\ ret' = NoRet

\* two Managers, each started once; callers await increments of the
\* first, whose handler may call Await or Kill of either Manager
NextSelf ==
    \/ \E l \in LoopIds : SetRunning(l)
    \/ \E l \in LoopIds : Receive(l)
    \/ \E l \in LoopIds : StoreKill(l)
    \/ \E l \in LoopIds : Dispatch(l)
    \/ \E l \in LoopIds : HandlerDone(l)
    \/ \E l \in LoopIds : Store(l)
    \/ \E l \in LoopIds : ClearRunning(l)
    \/ \E l \in LoopIds, m2 \in Allocated, route \in {"inc", KillRoute} :
          loop[l].m = 1 /\ HandlerAwait(l, m2, route)
    \/ \E l \in LoopIds : HandlerEnqueue(l)
    \/ \E l \in LoopIds : HandlerWait(l)
    \/ \E c \in CallerIds : Enqueue(c)
    \/ \E c \in CallerIds : Wait(c)
    \/ \E t \in Handles, s \in StateKeys : StartOnce("c1", t, s)
    \/ \E c \in CallerIds : Await(c, Handle(1), "inc", Nil)

SpecSelf == InitPair /\ [][NextSelf]_vars

\* a second Manager is created beside the first, under the other name or,
\* once the first was removed, under the same name; one caller starts the
\* Managers, attaches the increment to the second and sends it increments,
\* the other calls Attach, Detach, Kill and Remove on the handle of the
\* first
NextIsolated ==
    \/ \E l \in LoopIds : SetRunning(l)
    \/ \E l \in LoopIds : Receive(l)
    \/ \E l \in LoopIds : StoreKill(l)
    \/ \E l \in LoopIds : Dispatch(l)
    \/ \E l \in LoopIds : HandlerReturns(l)
    \/ \E l \in LoopIds : Store(l)
    \/ \E l \in LoopIds : ClearRunning(l)
    \/ \E c \in CallerIds : Enqueue(c)
    \/ \E c \in CallerIds : Wait(c)
    \/ \E c \in CallerIds : RemoveCheck(c)
    \/ \E c \in CallerIds : RemoveDelete(c)
    \/ \E name \in Names : getManager(name) = NoMgr /\ NewManager("c1", name, 1)
    \/ \E t \in Handles, s \in StateKeys : StartOnce("c1", t, s)
    \/ Len(mgr) = 2 /\ mgr[2].functions["inc"] = NoFn
                     /\ Attach("c1", Handle(2), "inc", "inc")
    \/ Len(mgr) = 2 /\ Send("c1", Handle(2), "inc", Nil)
    \/ Attach("c2", Handle(1), "inc", "square")
    \/ Detach("c2", Handle(1), "inc")
    \/ Kill("c2", Handle(1))
    \/ Remove("c2", Handle(1))

SpecIsolated == InitCreated /\ [][NextIsolated]_vars

----------------------------------------------------------------------------
(* Properties *)

\* the loops of Manager m that are inside a handler
Executing(m) == {l \in LoopIds : loop[l].m = m /\ loop[l].pc = "handler"}

\* the loops of Manager m that have set running and not yet cleared it
Serving(m) == {l \in LoopsOf(m) : loop[l].pc # "start"}

\* C1: at most one handler of a Manager executes at any instant, also when
\* Start is invoked more than once on the Manager.  Two goroutines inside
\* Start both receive from the mailbox, and their handlers overlap.
OneHandlerAtATime ==
    \A m \in Allocated : Cardinality(Executing(m)) <= 1

\* C2: no lost updates.  Once every request sent to a Manager started once,
\* each an increment that reads the counter and then writes it, has been
\* dispatched and answered, the counter equals the number of requests.
NoLostUpdates ==
    \A m \in Allocated :
        (/\ Created # {}
         /\ \A r \in Created : req[r].dest = m /\ req[r].phase = "responded")
            => \A s \in StateKeys : state[m][s] = Len(req)

\* C2 witness: both callers sent increments, all answered, none lost
NoLostUpdatesWitness ==
    /\ Len(req) >= 2
    /\ senders = CallerIds
    /\ \A r \in Created : req[r].dest = 1 /\ req[r].phase = "responded"
    /\ state[1]["s1"] = Len(req)

\* C3: FIFO dispatch.  Of two requests queued on the same Manager, the one
\* that arrived first has its response stored before the handler of the
\* other begins.
FifoDispatch ==
    \A r1, r2 \in Created :
        (/\ req[r1].dest # NoMgr
         /\ req[r1].dest = req[r2].dest
         /\ req[r1].ticket < req[r2].ticket
         /\ req[r2].phase \in {"dispatched", "responded"})
            => req[r1].phase = "responded"

\* C3 witness: r2 joined the mailbox while r1 was still in it, r1 has been
\* answered and the handler of r2 is running
FifoDispatchWitness ==
    \E r1, r2 \in Created :
        /\ req[r1].dest = req[r2].dest
        /\ req[r2].ticket = req[r1].ticket + 1
        /\ req[r2].ahead >= 1
        /\ req[r1].phase = "responded"
        /\ req[r2].phase = "dispatched"
        /\ \E l \in LoopIds : loop[l].pc = "handler" /\ loop[l].r = r2

\* C4: round trip.  An Await whose route has a handler returns what the
\* handler returns for the state it read and the payload of the request,
\* and a nil error.
RoundTrip ==
    (ret.op = "Await" /\ ret.r # NoReq /\ req[ret.r].fn # NoFn)
        => /\ ret.Error = NoErr
           /\ req[ret.r].fn = mgr[ret.m].functions[req[ret.r].Route]
           /\ ret.Data = HandlerReturn(req[ret.r].fn, req[ret.r].read, req[ret.r].Data)

\* C4 witness: the state was set to 2, and Await("multiply", 2) returns 4
RoundTripWitness ==
    /\ ret.op = "Await"
    /\ ret.r # NoReq
    /\ req[ret.r].Route = "multiply"
    /\ req[ret.r].read = 2
    /\ ret.Data = IntV(4)
    /\ ret.Error = NoErr

\* the state the test's reference copy holds after the first n requests
RECURSIVE RefState(_)
RefState(n) ==
    IF n = 0
        THEN InitialValue
        ELSE LET before == RefState(n - 1)
             IN  HandlerState(TestRoutes[req[n].Route], before, before, req[n].Data)

\* C5: read your writes.  When one caller alone sends to a Manager, what
\* its awaited read returns reflects all its earlier requests, in the
\* order it issued them.
ReadYourWrites ==
    (ret.op = "Await" /\ ret.r # NoReq /\ senders = {ret.c})
        => ret.Data = HandlerReturn(TestRoutes[req[ret.r].Route],
                                    RefState(ret.r - 1), req[ret.r].Data)

\* C5 witness: setValue(1), setValue(2), then an awaited square returns 4
ReadYourWritesWitness ==
    /\ ret.op = "Await"
    /\ senders = {ret.c}
    /\ ret.r = 3
    /\ req[1].Route = "setValue" /\ req[1].Data = IntV(1)
    /\ req[2].Route = "setValue" /\ req[2].Data = IntV(2)
    /\ req[3].Route = "square"
    /\ ret.Data = IntV(4)

\* C6: when Kill returns, IsRunning reports false.  The loop stores the
\* kill response before it clears running, so Kill can return in between.
KillReturnsStopped ==
    (/\ ret.op = "Kill"
     /\ ret.Error = NoErr
     /\ \A l \in LoopsOf(ret.m) : loop[l].pc = "exit")
        => ~mgr[ret.m].running

\* C7: KillAndRemove on a started Manager returns nil and leaves the name
\* out of the map.  Its Remove can find running still set.
KillAndRemoveSucceeds ==
    (/\ ret.op = "KillAndRemove"
     /\ ret.m # NoMgr
     /\ \A l \in LoopsOf(ret.m) : loop[l].pc = "exit")
        => /\ ret.Error = NoErr
           /\ managersMap[mgr[ret.m].Name] = NoMgr

\* C8: a Remove whose test of IsRunning comes while a loop of the Manager
\* has set running returns the error of a running Manager and changes
\* neither the map, nor the Manager, nor its loop.
RemoveWhileRunning ==
    [][\A c \in CallerIds :
          (/\ caller[c].pc = "remove"
           /\ caller[c].op = "Remove"
           /\ Serving(caller[c].m) # {}
           /\ caller'[c] # caller[c])
             => /\ ret' = [c |-> c, op |-> "Remove", m |-> caller[c].m, r |-> NoReq,
                           Data |-> Nil,
                           Error |-> ErrRunning(mgr[caller[c].m].Name)]
                /\ managersMap' = managersMap
                /\ mgr' = mgr
                /\ loop' = loop]_vars

\* C8 witness: Remove has just been refused; the Manager is in the map
\* and its loop waits for requests
RemoveWhileRunningWitness ==
    /\ ret.op = "Remove"
    /\ ret.m # NoMgr
    /\ ret.Error = ErrRunning(mgr[ret.m].Name)
    /\ managersMap[mgr[ret.m].Name] = ret.m
    /\ \E l \in LoopIds : loop[l].m = ret.m /\ loop[l].pc = "recv"

\* C9: no Manager with a running loop is missing from the map.  Remove
\* tests IsRunning and deletes in two steps, and Start can come between
\* them, or have begun without having set running yet.
RegisteredWhileRunning ==
    \A l \in LoopIds :
        loop[l].pc \in {"recv", "lookup", "handler", "store"}
            => managersMap[mgr[loop[l].m].Name] = loop[l].m

\* the name a NewManager that returns res was called with
CreatedName(res) == IF res.Error # NoErr THEN res.Error.name ELSE mgr'[res.m].Name

\* C10: NewManager under a name the map holds returns (nil, AlreadyExists)
\* and leaves the map and the Manager it holds as they were.
DoubleCreation ==
    [][\A c \in CallerIds, n \in Names :
          (/\ managersMap[n] # NoMgr
           /\ ret'.c = c
           /\ ret'.op = "NewManager"
           /\ CreatedName(ret') = n)
             => /\ ret'.Error = ErrExists(n)
                /\ ret'.m = NoMgr
                /\ managersMap' = managersMap
                /\ mgr' = mgr]_vars

\* C10 witness: NewManager("A") has just failed; the first Manager is in
\* the map, running, with its route
DoubleCreationWitness ==
    /\ ret.op = "NewManager"
    /\ ret.Error = ErrExists("A")
    /\ managersMap["A"] # NoMgr
    /\ mgr[managersMap["A"]].running
    /\ mgr[managersMap["A"]].functions["inc"] = "inc"

\* the Managers that successful NewManager calls made under the name n
MadeAs(n) == {m \in Allocated : mgr[m].Name = n}

\* C11: name uniqueness.  Of the NewManager calls under one name, made by
\* several callers on a map that does not hold it, one succeeds and the
\* others return AlreadyExists; the map holds a name for at most one
\* Manager, and every lookup that succeeds returns the Manager made by the
\* call that succeeded.
NameUniqueness ==
    /\ \A n \in Names :
          /\ Cardinality(MadeAs(n)) <= 1
          /\ MadeAs(n) = {m \in Allocated : managersMap[n] = m}
    /\ ret.op = "NewManager" =>
          \/ /\ ret.Error.e = "nil"
             /\ ret.m \in Allocated
             /\ MadeAs(mgr[ret.m].Name) = {ret.m}
          \/ /\ ret.Error.e = "AlreadyExists"
             /\ ret.m = NoMgr
             /\ MadeAs(ret.Error.name) # {}
    /\ ret.op = "GetManager" =>
          \/ /\ ret.Error.e = "nil"
             /\ ret.m \in Allocated
             /\ MadeAs(mgr[ret.m].Name) = {ret.m}
          \/ /\ ret.Error.e = "NotFound"
             /\ ret.m = NoMgr
             /\ MadeAs(ret.Error.name) = {}

\* C11 witness: both names are taken, each by one Manager, and the call of
\* the second caller under the name of the first Manager has just failed
NameUniquenessWitness ==
    /\ Len(mgr) = 2
    /\ ret.op = "NewManager"
    /\ ret.c = "c2"
    /\ ret.Error = ErrExists("A")
    /\ managersMap["A"] = 1
    /\ managersMap["B"] = 2

\* the requests whose route had no handler when the loop looked it up
Unrouted == {r \in Created : req[r].phase \in {"dispatched", "responded"}
                              /\ req[r].fn = NoFn}

\* the error of a route without a handler, as the loop words it
RouteNotFound(r) ==
    [e |-> "NoFunction", route |-> req[r].Route, name |-> mgr[req[r].dest].Name]

\* C12: unknown route.  An Await whose route has no handler when the loop
\* looks it up returns nil and the error that names the route and the
\* Manager; the loop enters no handler for the request and leaves the
\* owned state as it is; a Send on such a route returns no error.
UnknownRoute ==
    /\ [](/\ (ret.op = "Await" /\ ret.r \in Unrouted)
               => ret.Data = Nil /\ ret.Error = RouteNotFound(ret.r)
          /\ (ret.op = "Send" /\ ret.r # NoReq) => ret.Error = NoErr
          /\ \A l \in LoopIds :
                (loop[l].r \in Unrouted /\ req[loop[l].r].phase = "dispatched")
                    => /\ loop[l].pc = "store"
                       /\ loop[l].response =
                             responseStruct(Nil, RouteNotFound(loop[l].r)))
    /\ [][\A l \in LoopIds :
             (/\ loop[l].pc = "lookup"
              /\ mgr[loop[l].m].functions[req[loop[l].r].Route] = NoFn
              /\ loop'[l] # loop[l])
                => state' = state /\ loop'[l].pc = "store"]_vars

\* C12 witness: the counter is 1, the route has been detached, and an
\* Await on it has just returned the error
UnknownRouteWitness ==
    /\ ret.op = "Await"
    /\ ret.r \in Unrouted
    /\ req[ret.r].Route = "square"
    /\ ret.Error = ErrNoFunction("square", "A")
    /\ state[1]["s1"] = 1

\* what the handler of request r returned
Returned(r) == HandlerReturn(req[r].fn, req[r].read, req[r].Data)

\* the requests whose handler returned an error
Refused == {r \in Created : req[r].fn # NoFn /\ IsError(Returned(r))}

\* C13: handler error.  When what a handler returns is an error, the
\* response stored for the request has a nil Data and that error as its
\* Error, and Await returns (nil, that error).
HandlerError ==
    /\ \A r \in Refused :
          req[r].response # <<>>
              => Head(req[r].response) =
                    [Data |-> Nil,
                     Error |-> [e |-> ErrTexts[Returned(r).v], route |-> "", name |-> ""]]
    /\ (ret.op = "Await" /\ ret.r \in Refused)
          => /\ ret.Data = Nil
             /\ ret.Error = [e |-> ErrTexts[Returned(ret.r).v], route |-> "", name |-> ""]

\* C13 witness: an Await of a multiplication by nil has just returned the
\* error of the handler
HandlerErrorWitness ==
    /\ ret.op = "Await"
    /\ ret.r \in Refused
    /\ req[ret.r].fn = "multiply"
    /\ ret.Data = Nil
    /\ ret.Error.e = "Invalid Request Type!"

\* the requests that ended in an error of the dispatch
Failed == {r \in Created : req[r].phase = "responded"
                            /\ (r \in Unrouted \/ r \in Refused)}

\* the requests the loop answered without an error
Served == {r \in Created : req[r].phase = "responded"
                            /\ r \notin Unrouted /\ r \notin Refused}

\* C14: dispatch errors are not fatal.  After a request ended in
\* RouteNotFound or in a handler's error, the Manager is running, with its
\* loop in the cycle; the error is in the response of that request only:
\* the requests served after it get what their handlers return and no error.
ErrorsNotFatal ==
    /\ \A r \in Failed :
          /\ mgr[req[r].dest].running
          /\ \E l \in LoopsOf(req[r].dest) :
                loop[l].pc \in {"recv", "lookup", "handler", "store"}
    /\ \A r \in Served :
          req[r].response # <<>>
              => Head(req[r].response) = responseStruct(Returned(r), NoErr)
    /\ (ret.op = "Await" /\ ret.r \in Served)
          => ret.Data = Returned(ret.r) /\ ret.Error = NoErr

\* C14 witness: the first request ended in RouteNotFound, the second in
\* the error of its handler, and the Await of the third, an increment, has
\* just returned without an error, with the counter written
ErrorsNotFatalWitness ==
    /\ Len(req) = 3
    /\ req[1].ticket = 1 /\ req[2].ticket = 2 /\ req[3].ticket = 3
    /\ 1 \in Failed /\ 1 \in Unrouted
    /\ 2 \in Failed /\ 2 \in Refused
    /\ ret.op = "Await" /\ ret.r = 3 /\ 3 \in Served
    /\ req[3].fn = "inc"
    /\ ret.Error = NoErr
    /\ state[1]["s1"] = 1
    /\ mgr[1].running

\* the terminal inside the wrappers of x, as a call returns it
Innermost(x) ==
    LET terminal == [x EXCEPT !.wrap = <<>>]
    IN  IF IsError(terminal)
          THEN responseStruct(Nil, ErrOf(terminal))
          ELSE responseStruct(terminal, NoErr)

\* C15: nested response unwrapping.  When a handler returns a channel or
\* a nested response, Await returns the innermost value, or the innermost
\* error, and not the channel.  getData receives from the channel into a
\* local and, unless that is a nested response, returns response.Data,
\* which is the channel.
NestedUnwrapping ==
    (ret.op = "Await" /\ ret.r # NoReq /\ req[ret.r].fn = "relay")
        => responseStruct(ret.Data, ret.Error) = Innermost(req[ret.r].Data)

\* C16: the response channel of a Request is written at most once, also
\* when callers queue the same Request again.  Every time the loop takes
\* the Request from the mailbox it stores a response.
SlotWrittenOnce ==
    \A r \in Created : req[r].writes <= 1

\* C17: the store of a response never blocks the loop.  A Request queued
\* again while its first response is in the channel leaves the loop at a
\* send on a full channel.
StoreNeverBlocks ==
    \A l \in LoopIds :
        loop[l].pc \in {"store", "kill"} => Len(req[loop[l].r].response) < 1

\* C18: HasData is false from the creation of the Request until the loop
\* has stored its response, true from then until Wait takes the response,
\* and changes nothing: the response it saw is there for Wait.
HasDataPeek ==
    /\ [](/\ ret.op = "HasData"
               => /\ ret.Data = BoolV(req[ret.r].writes > req[ret.r].taken)
                  /\ req[ret.r].phase # "responded" => ret.Data = BoolV(FALSE)
                  /\ ret.Data = BoolV(TRUE) => req[ret.r].response # <<>>
          /\ \A r \in Created :
                req[r].phase = "responded" <=> req[r].writes = 1)
    /\ [][ret'.op = "HasData" => req' = req /\ mgr' = mgr]_vars

\* C18 witness: HasData has just returned true for a Request whose Await
\* has not yet taken the response
HasDataPeekWitness ==
    /\ ret.op = "HasData"
    /\ ret.Data = BoolV(TRUE)
    /\ \E c \in CallerIds : caller[c].pc = "wait" /\ caller[c].r = ret.r

\* the places of request r in the mailbox of Manager m
Places(m, r) == {i \in 1 .. Len(mgr[m].requests) : mgr[m].requests[i] = r}

\* the loops that hold request r
Holders(r) == {l \in LoopIds : loop[l].pc # "free" /\ loop[l].r = r}

\* C19: backpressure without loss.  A mailbox holds at most bufferSize
\* requests; a send on the mailbox completes only when there is room, and
\* puts the request at the end; a request that was queued is in the
\* mailbox once, or was taken from it by one loop, and a Send that returned
\* has queued its request.
Backpressure ==
    /\ [](/\ \A m \in Allocated : Len(mgr[m].requests) <= mgr[m].bufferSize
          /\ \A r \in Created, m \in Allocated :
                Cardinality(Places(m, r)) =
                    IF req[r].phase = "enqueued" /\ req[r].dest = m THEN 1 ELSE 0
          /\ \A r \in Created :
                Cardinality(Holders(r)) =
                    IF req[r].phase \in {"received", "dispatched"} THEN 1 ELSE 0
          /\ (ret.op = "Send" /\ ret.r # NoReq) => req[ret.r].phase # "created")
    /\ [][\A c \in CallerIds :
             (caller[c].pc = "send" /\ caller'[c] # caller[c])
                => /\ Len(mgr[caller[c].m].requests) < mgr[caller[c].m].bufferSize
                   /\ mgr'[caller[c].m].requests =
                         Append(mgr[caller[c].m].requests, caller[c].r)]_vars

\* C19 witness: the mailbox is full with the largest buffer, a caller is
\* held at its send, and no loop has taken anything yet
BackpressureWitness ==
    /\ mgr[1].bufferSize = MaxBuf
    /\ Len(mgr[1].requests) = MaxBuf
    /\ \E c \in CallerIds : caller[c].pc = "send" /\ caller[c].op = "Send"
    /\ \A r \in Created : Holders(r) = {}

\* C20: Send does not wait for the dispatch.  When Send returns, by handle
\* or by name, its request is the last of the mailbox, no loop has taken
\* it and its response channel is empty, whatever the loop is doing.
SendReturnsAtOnce ==
    (ret.op = "Send" /\ ret.r # NoReq)
        => /\ ret.Error = NoErr
           /\ mgr[ret.m].requests # <<>>
           /\ mgr[ret.m].requests[Len(mgr[ret.m].requests)] = ret.r
           /\ req[ret.r].phase = "enqueued"
           /\ req[ret.r].response = <<>>

\* C20 witness: Send has just returned while the loop is inside the
\* handler of an earlier request
SendReturnsAtOnceWitness ==
    /\ ret.op = "Send"
    /\ ret.r # NoReq
    /\ req[ret.r].response = <<>>
    /\ \E l \in LoopIds : loop[l].pc = "handler" /\ loop[l].r # ret.r

\* Send has just returned on a Manager that no loop serves
SendReturnsNotRunning ==
    /\ ret.op = "Send"
    /\ ret.r # NoReq
    /\ LoopsOf(ret.m) = {}
    /\ ~mgr[ret.m].running

\* the calls that the package's bindings make by name
NameOps == {"Send", "SendRequest", "Await", "AwaitRequest", "Attach", "Detach",
            "Start", "GetManager", "Kill", "Remove", "KillAndRemove"}

\* C21: a call by a name the registry does not hold returns the NotFound
\* error in its first step and does nothing else.  No call goes on, and
\* no loop runs, without a Manager; a call by name that returns without a
\* Manager returns NotFound; and the step that returns NotFound is taken
\* by an idle caller, for a name the map does not hold, and leaves the
\* map, the Managers, their mailboxes, the Requests, the owned states and
\* the loops as they were.
AbsentName ==
    /\ [](/\ \A c \in CallerIds :
                (caller[c].pc # "idle" /\ caller[c].op \in NameOps)
                    => caller[c].m \in Allocated
          /\ \A l \in LoopIds : loop[l].pc # "free" => loop[l].m \in Allocated
          /\ (ret.op \in NameOps /\ ret.m = NoMgr)
                => /\ ret.Error.e = "NotFound"
                   /\ ret.r = NoReq
                   /\ ret.Data = Nil)
    /\ [][ret'.Error.e = "NotFound"
            => /\ ret'.op \in NameOps
               /\ Idle(ret'.c)
               /\ getManager(ret'.Error.name) = NoMgr
               /\ ret'.m = NoMgr
               /\ UNCHANGED <<managersMap, mgr, req, state, loop, senders>>]_vars

\* C21 witness: a call by the name "B" has just returned NotFound while
\* the loop of the Manager "A" is inside a handler and a caller waits for
\* its response
AbsentNameWitness ==
    /\ ret.Error = ErrNotFound("B")
    /\ ret.op = "AwaitRequest"
    /\ \E l \in LoopIds : loop[l].pc = "handler"
    /\ \E c \in CallerIds : caller[c].pc = "wait"
    /\ managersMap = [n \in Names |-> IF n = "A" THEN 1 ELSE NoMgr]

\* a call by the name "A" has just returned NotFound: "A" was removed
RemovedNameWitness ==
    /\ ret.Error = ErrNotFound("A")
    /\ ret.op = "Await"
    /\ Len(mgr) = 1

KillOps == {"Kill", "KillAndRemove"}

\* the requests that joined the mailbox of r's Manager before r did
Ahead(r) ==
    {q \in Created : req[q].dest = req[r].dest /\ req[q].phase # "created"
                       /\ req[q].ticket < req[r].ticket}

\* C22: Kill is a barrier.  A Kill or KillAndRemove leaves its wait only
\* when the loop has received its kill request and stored the response,
\* and then every request that joined the mailbox ahead of the kill
\* request has been dispatched and has had its response stored; and the
\* loop that received a kill request takes nothing more from the mailbox.
KillBarrier ==
    /\ []((ret.op = "Kill" /\ ret.m # NoMgr)
            => /\ ret.r # NoReq
               /\ req[ret.r].phase = "responded"
               /\ \A q \in Ahead(ret.r) : req[q].phase = "responded")
    /\ [][/\ \A c \in CallerIds :
                (caller[c].op \in KillOps /\ caller[c].pc = "wait"
                    /\ caller'[c].pc # "wait")
                    => /\ req[caller[c].r].phase = "responded"
                       /\ \A q \in Ahead(caller[c].r) : req[q].phase = "responded"
          /\ \A l \in LoopIds :
                loop[l].pc \in {"kill", "exit"}
                    => /\ loop'[l].pc \in {"kill", "exit", "free"}
                       /\ loop'[l].r \in {loop[l].r, NoReq}
                       /\ Len(mgr'[loop[l].m].requests)
                             >= Len(mgr[loop[l].m].requests)]_vars

\* C22 witness: Kill has just returned; an increment that was in the
\* mailbox ahead of the kill request has its response, and the loop that
\* received the kill request is still inside Start
KillBarrierWitness ==
    /\ ret.op = "Kill"
    /\ ret.r # NoReq
    /\ \E q \in Ahead(ret.r) : req[q].Route = "inc" /\ req[q].ahead > 0
    /\ req[ret.r].ahead > 0
    /\ \E l \in LoopIds : loop[l].pc = "exit"

\* the request r joined the mailbox behind a kill request that a loop
\* has received
Behind(r) ==
    \E k \in Ahead(r) :
        req[k].Route = KillRoute /\ req[k].phase \in {"received", "responded"}

\* C23: with Start called once, a request behind the kill request that
\* the loop received is abandoned: it stays in the mailbox, no handler
\* runs for it, its response channel stays empty, HasData stays false and
\* no wait on it returns.
Abandoned ==
    /\ [](\A r \in Created :
            Behind(r)
                => /\ req[r].phase = "enqueued"
                   /\ req[r].fn = NoFn
                   /\ req[r].response = <<>>
                   /\ req[r].writes = 0
                   /\ ~hasData(r)
                   /\ ret.r # r
                   /\ \E i \in 1 .. Len(mgr[req[r].dest].requests) :
                         mgr[req[r].dest].requests[i] = r)
    /\ [][\A r \in Created :
            Behind(r)
                => /\ Behind(r)'
                   /\ \A c \in CallerIds :
                         (caller[c].r = r /\ caller[c].pc = "wait")
                            => caller'[c] = caller[c]]_vars

\* C23 witness: the loop has gone, Kill has returned, and a caller waits
\* for an increment that is still in the mailbox, behind the kill request
AbandonedWitness ==
    /\ \A l \in LoopIds : loop[l].pc = "free"
    /\ ~mgr[1].running
    /\ \E r \in Created, c \in CallerIds :
          /\ Behind(r)
          /\ req[r].Route = "inc"
          /\ caller[c].r = r
          /\ caller[c].pc = "wait"
          /\ caller[c].op = "Await"

\* C24: with Start called once, a Kill or KillAndRemove of a Manager
\* whose loop has gone does not return.  A call leaves Kill only by taking
\* the response of its kill request; the loop answers one kill request in
\* the life of the Manager; and a call whose kill request is not that one
\* stays at its send on the mailbox or at its wait.
KillAfterExit ==
    /\ [](\A k, q \in Created :
            (/\ req[k].Route = KillRoute /\ req[q].Route = KillRoute
             /\ req[k].dest = req[q].dest
             /\ req[k].phase \in {"received", "responded"}
             /\ req[q].phase \in {"received", "responded"}) => k = q)
    /\ [][\A c \in CallerIds :
            /\ (ret'.c = c /\ ret'.op = "Kill")
                  => caller[c].pc = "wait" /\ req[caller[c].r].response # <<>>
            /\ (caller'[c].op = "KillAndRemove" /\ caller'[c].pc = "remove")
                  => \/ caller[c].pc = "remove"
                     \/ caller[c].pc = "wait" /\ req[caller[c].r].response # <<>>
            /\ (/\ caller[c].op \in KillOps
                /\ Consumed(caller[c].m)
                /\ \/ caller[c].pc = "send"
                   \/ caller[c].pc = "wait" /\ Behind(caller[c].r))
                  => /\ caller'[c].pc \in {"send", "wait"}
                     /\ caller'[c].op = caller[c].op
                     /\ caller'[c].r = caller[c].r
                     /\ ret'.c # c]_vars

\* C24 witness: the loop has gone and the mailbox of capacity 1 is full; a
\* Kill whose kill request joined the empty mailbox waits for its
\* response, and a KillAndRemove waits for room in the mailbox
KillAfterExitWitness ==
    /\ \A l \in LoopIds : loop[l].pc = "free"
    /\ ~mgr[1].running
    /\ mgr[1].bufferSize = 1
    /\ \E c, d \in CallerIds :
          /\ caller[c].op = "Kill"
          /\ caller[c].pc = "wait"
          /\ Behind(caller[c].r)
          /\ req[caller[c].r].ahead = 0
          /\ mgr[1].requests = <<caller[c].r>>
          /\ caller[d].op = "KillAndRemove"
          /\ caller[d].pc = "send"

\* the loops of Manager m that have begun and have not received a kill
\* request
Looping(m) == {l \in LoopsOf(m) : loop[l].pc \in {"recv", "lookup", "handler", "store"}}

\* C25: the running flag tracks the loop.  In every state the flag of a
\* Manager is true exactly when one of its loops has begun and has not
\* yet received a kill request, and IsRunning returns the flag.
RunningTracksLoop ==
    /\ \A m \in Allocated : mgr[m].running <=> Looping(m) # {}
    /\ ret.op = "IsRunning" => ret.Data = BoolV(mgr[ret.m].running)

\* IsRunning has just returned false while a loop of the Manager waits
\* for requests: another loop of the same Manager was killed
StoppedWhileLooping ==
    /\ ret.op = "IsRunning"
    /\ ret.Data = BoolV(FALSE)
    /\ \E l \in LoopsOf(ret.m) : loop[l].pc = "recv"
    /\ \A l \in LoopsOf(ret.m) : loop[l].pc \notin {"start", "kill", "exit"}

\* C26: one toggle decides whether the loop reports its errors.  Whatever
\* the toggle is set to, the loop has written the error of the response
\* it is about to store exactly when the toggle is on, and has written
\* nothing for a response without an error.
ErrorLogToggle ==
    \A on \in LogSettings :
        \A l \in LoopIds :
            loop[l].pc = "store"
                => IF loop[l].response.Error # NoErr
                     THEN req[loop[l].r].printed > 0 <=> on
                     ELSE req[loop[l].r].printed = 0

\* an error was printed, which the toggle set to false forbids
ErrorPrinted == \E r \in Created : req[r].printed > 0

\* C27: a route is resolved when the loop looks it up.  The step of the
\* lookup takes the handler that the table holds at that step; while the
\* handler runs the loop keeps it, whatever is attached meanwhile; and
\* the handler's return makes the state and the response of that handler.
ResolvedAtLookup ==
    [][\A l \in LoopIds :
        LET m == loop[l].m
            r == loop[l].r
        IN  /\ (loop[l].pc = "lookup" /\ loop'[l] # loop[l])
                  => LET fn == mgr[m].functions[req[r].Route]
                     IN  /\ loop'[l].fn = fn
                         /\ req'[r].fn = fn
                         /\ loop'[l].pc = IF fn = NoFn THEN "store" ELSE "handler"
            /\ (loop[l].pc = "handler" /\ loop'[l].pc = "handler")
                  => loop'[l] = loop[l]
            /\ (loop[l].pc = "handler" /\ loop'[l].pc # "handler")
                  => /\ loop'[l].response =
                          handlerResponse(HandlerReturn(loop[l].fn, loop[l].read,
                                                        req[r].Data))
                     /\ state'[m][loop[l].s] =
                          HandlerState(loop[l].fn, state[m][loop[l].s],
                                       loop[l].read, req[r].Data)]_vars

\* C27 witness: Attach has just returned, having put another handler
\* under the route of the request whose handler is running, and a second
\* request for the route is in the mailbox
ResolvedAtLookupWitness ==
    /\ ret.op = "Attach"
    /\ \E l \in LoopIds :
          /\ loop[l].pc = "handler"
          /\ loop[l].fn = "square"
          /\ req[loop[l].r].Route = ChangedRoute
          /\ mgr[loop[l].m].functions[ChangedRoute] = "relay"
          /\ \E q \in Created :
                req[q].Route = ChangedRoute /\ req[q].phase = "enqueued"

\* C28: Detach takes effect at the next lookup.  When Detach returns the
\* table has no entry for the route; a lookup that finds no entry makes
\* the 'No function named' error, for every request, whenever it was
\* queued; and the response stored for a request whose handler was found
\* is that handler's result, detached meanwhile or not.
DetachAtLookup ==
    /\ [](\A r \in Created :
            req[r].response # <<>>
                => Head(req[r].response) =
                      IF req[r].fn = NoFn
                        THEN responseStruct(Nil,
                                ErrNoFunction(req[r].Route, mgr[req[r].dest].Name))
                        ELSE handlerResponse(
                                HandlerReturn(req[r].fn, req[r].read, req[r].Data)))
    /\ [][/\ (ret'.op = "Detach" /\ ret'.m # NoMgr)
                => /\ mgr'[ret'.m].functions[ChangedRoute] = NoFn
                   /\ loop' = loop
                   /\ req' = req
          /\ \A l \in LoopIds :
                (/\ loop[l].pc = "lookup" /\ loop'[l] # loop[l]
                 /\ mgr[loop[l].m].functions[req[loop[l].r].Route] = NoFn)
                    => /\ loop'[l].pc = "store"
                       /\ req'[loop[l].r].fn = NoFn
                       /\ loop'[l].response =
                            responseStruct(Nil,
                                ErrNoFunction(req[loop[l].r].Route,
                                              mgr[loop[l].m].Name))]_vars

\* C28 witness: Detach has just returned while the handler of the route
\* is running for one request and a second request for the route, queued
\* before the Detach, is in the mailbox
DetachAtLookupWitness ==
    /\ ret.op = "Detach"
    /\ mgr[ret.m].functions[ChangedRoute] = NoFn
    /\ \E l \in LoopIds :
          /\ loop[l].pc = "handler"
          /\ loop[l].fn = "square"
          /\ req[loop[l].r].Route = ChangedRoute
    /\ \E q \in Created : req[q].Route = ChangedRoute /\ req[q].phase = "enqueued"

\* Detach has just returned, and the response of a request that was
\* dispatched while the route was attached is in its channel
DetachedAfterLookup ==
    /\ ret.op = "Detach"
    /\ \E r \in Created :
          /\ req[r].response = <<responseStruct(IntV(0), NoErr)>>
          /\ req[r].fn = "square"

\* C29: the lock discipline.  A loop that is inside a handler, or at its
\* receive from the mailbox, or at the store of a response, holds no lock
\* but the one of the call its handler is making; a caller at its send on
\* the mailbox or at its wait for the response holds none; no goroutine
\* holds two locks and no lock has two holders; and whoever holds a lock
\* can take its next step, which gives the lock back: nobody who waits
\* for a lock waits for a goroutine that is itself held up.
LockDiscipline ==
    /\ \A l \in LoopIds :
          /\ loop[l].pc \in {"free", "recv", "kill", "store", "start", "lookup", "exit"}
                => loop[l].held = {}
          /\ loop[l].pc = "handler"
                => loop[l].held \subseteq
                      (IF loop[l].call = "" THEN {}
                                            ELSE {LockOf(loop[l].call, loop[l].m)})
          /\ Cardinality(loop[l].held) <= 1
          /\ loop[l].held # {}
                => ENABLED (\/ SetRunningUnlock(l) \/ DispatchUnlock(l)
                            \/ HandlerUnlock(l) \/ ClearRunningUnlock(l))
    /\ \A c \in CallerIds :
          /\ caller[c].pc \in {"idle", "send", "wait", "lock", "lock2"}
                => caller[c].held = {}
          /\ Cardinality(caller[c].held) <= 1
          /\ caller[c].held # {}
                => ENABLED (CallUnlock(c) \/ RemoveUnlock(c))
          /\ (caller[c].pc \in {"lock", "lock2"} /\ Free(Wanted(c)))
                => ENABLED (CallLock(c) \/ RemoveLock(c))
    /\ \A m \in Allocated : Cardinality(Holding(StateLock(m))) <= 1
    /\ Cardinality(Holding(ManagersLock)) <= 1

\* C29 witness: a handler is inside the Attach it called, holding the
\* stateLock of its own Manager, while one caller waits for that lock
\* and the other waits for the handler's response
LockDisciplineWitness ==
    \E l \in LoopIds, c, d \in CallerIds :
        /\ loop[l].pc = "handler"
        /\ loop[l].call = "Attach"
        /\ loop[l].held = {StateLock(loop[l].m)}
        /\ caller[c].pc = "lock"
        /\ Wanted(c) = StateLock(loop[l].m)
        /\ caller[d].pc = "wait"
        /\ caller[d].r = loop[l].r

\* a handler is inside the GetManager it called, holding managersLock,
\* while a caller's Remove waits for that lock
RegistryCallInHandler ==
    \E l \in LoopIds, c \in CallerIds :
        /\ loop[l].pc = "handler"
        /\ loop[l].held = {ManagersLock}
        /\ caller[c].pc = "lock2"

\* the request r is in the mailbox of a Manager that a loop serves, with
\* no kill request ahead of it
Pending(r) ==
    /\ r \in Created
    /\ req[r].phase = "enqueued"
    /\ req[r].Route # KillRoute
    /\ LoopsOf(req[r].dest) # {}
    /\ \A k \in Ahead(r) : req[k].Route # KillRoute

\* C30: under fair scheduling a request that is in the mailbox of a
\* Manager with a running loop, ahead of every kill request, gets its one
\* response, and an Await on such a request returns.
EventuallyAnswered ==
    /\ \A r \in ReqIds :
          Pending(r) ~> (/\ r \in Created
                         /\ req[r].phase = "responded"
                         /\ req[r].writes = 1)
    /\ \A c \in CallerIds :
          (caller[c].op = "Await" /\ caller[c].pc = "wait" /\ Pending(caller[c].r))
              ~> (caller[c].pc = "idle")
    /\ [](\A r \in Created : req[r].writes <= 1)

\* C30 witness: an Await has returned the response of a request that had
\* a kill request behind it in the mailbox
EventuallyAnsweredWitness ==
    /\ ret.op = "Await"
    /\ ret.r # NoReq
    /\ ret.Error = NoErr
    /\ \E k \in Created :
          /\ req[k].Route = KillRoute
          /\ req[k].dest = ret.m
          /\ req[k].ticket > req[ret.r].ticket

\* C31: the reserved route always kills.  No handler is looked up or
\* called for a request on the kill route, whatever is attached under it;
\* the response stored for it is the empty one; the loop that received it
\* stores that response and leaves; Kill, and an Await on the route,
\* return nil; and KillAndRemove goes from its wait to its Remove.
ReservedRoute ==
    /\ [](/\ \A r \in Created :
                req[r].Route = KillRoute
                    => /\ req[r].fn = NoFn
                       /\ req[r].phase # "dispatched"
                       /\ req[r].printed = 0
                       /\ req[r].response # <<>>
                             => Head(req[r].response) = responseStruct(Nil, NoErr)
          /\ \A l \in LoopIds :
                (loop[l].r # NoReq /\ req[loop[l].r].Route = KillRoute)
                    => loop[l].pc = "kill"
          /\ (ret.r # NoReq /\ req[ret.r].Route = KillRoute
                 /\ ret.op \in {"Kill", "Await"})
                => ret.Error = NoErr /\ ret.Data = Nil)
    /\ [][/\ \A l \in LoopIds :
                (loop[l].pc = "kill" /\ loop'[l] # loop[l])
                    => /\ loop'[l].pc = "exit"
                       /\ req'[loop[l].r].response = <<responseStruct(Nil, NoErr)>>
          /\ \A c \in CallerIds :
                (caller[c].op = "KillAndRemove" /\ caller[c].pc = "wait"
                    /\ caller'[c] # caller[c])
                    => caller'[c].pc = "remove"]_vars

\* C31 witness: Kill has just returned nil on a Manager that has a
\* handler attached under the kill route
ReservedRouteWitness ==
    /\ ret.op = "Kill"
    /\ ret.r # NoReq
    /\ ret.Error = NoErr
    /\ mgr[ret.m].functions[KillRoute] = "square"
    /\ req[ret.r].ahead = 0

\* a KillAndRemove stands at its Remove, and a handler is attached under
\* the kill route
ReservedRouteRemoves ==
    \E c \in CallerIds :
        /\ caller[c].op = "KillAndRemove"
        /\ caller[c].pc = "remove"
        /\ mgr[caller[c].m].functions[KillRoute] = "square"

\* C32: Remove is a registry operation.  The step in which Remove returns
\* nil clears the map entry of the Manager's name and changes nothing
\* else: not the mailbox, the table or the running flag of any Manager.
\* Afterwards a send by handle still joins the mailbox, and a Send by the
\* name, called while the map has no entry for it, returns NotFound.
RemoveOnlyRegistry ==
    [][/\ (ret'.op = "Remove" /\ ret'.Error = NoErr)
            => /\ managersMap' = [managersMap EXCEPT ![mgr[ret'.m].Name] = NoMgr]
               /\ mgr' = mgr
               /\ UNCHANGED <<req, state, loop>>
       /\ \A c \in CallerIds :
            /\ (caller[c].op = "SendRequest" /\ caller[c].pc = "send"
                    /\ caller'[c] # caller[c])
                  => /\ mgr'[caller[c].m].requests =
                          Append(mgr[caller[c].m].requests, caller[c].r)
                     /\ ret'.Error = NoErr
            /\ (/\ Idle(c)
                /\ getManager("A") = NoMgr
                /\ caller'[c].op = "Send" \/ (ret'.c = c /\ ret'.op = "Send"))
                  => /\ ret'.Error = ErrNotFound("A")
                     /\ Idle(c)'
                     /\ mgr' = mgr /\ req' = req]_vars

\* C32 witness: with "A" removed, a SendRequest by handle has just put a
\* request in the mailbox, which holds what it held before the removal;
\* the route table is as it was
RemoveOnlyRegistryWitness ==
    /\ getManager("A") = NoMgr
    /\ ret.op = "SendRequest"
    /\ ret.Error = NoErr
    /\ Len(mgr[1].requests) = 2
    /\ mgr[1].requests[2] = ret.r
    /\ mgr[1].functions["inc"] = "inc"
    /\ mgr[1].functions["square"] = NoFn

\* Send by the name "A" has just returned NotFound, and the mailbox of
\* the removed Manager holds a request
RemovedSendNotFound ==
    /\ ret.op = "Send"
    /\ ret.Error = ErrNotFound("A")
    /\ mgr[1].requests # <<>>

RemoveOwnEntry ==
    [][\A c \in CallerIds :
          (caller[c].pc = "delete" /\ caller'[c] # caller[c])
             => \A n \in Names :
                   managersMap[n] # caller[c].m => managersMap'[n] = managersMap[n]]_vars

\* the stale handle: the first Manager, not running, is no
\* longer in the map, a second Manager is registered under its name, and
\* Remove() on the handle of the first stands before deleteManager
StaleHandleRemove ==
    \E c \in CallerIds :
        /\ caller[c].pc = "delete"
        /\ caller[c].m = 1
        /\ Len(mgr) = 2
        /\ mgr[2].Name = mgr[1].Name
        /\ getManager(mgr[1].Name) = 2

\* the kill requests made for Manager m
KillsOf(m) == {k \in Created : req[k].Route = KillRoute /\ req[k].dest = m}

\* both callers are inside Kill on Manager m
BothKilling(m) ==
    \A c \in CallerIds :
        caller[c].op = "Kill" /\ caller[c].m = m /\ caller[c].pc \in {"send", "wait"}

\* caller c is inside a Kill whose kill request is not the one the loop
\* of the Manager received
Loser(c) ==
    /\ caller[c].op = "Kill"
    /\ caller[c].pc \in {"send", "wait"}
    /\ req[caller[c].r].phase \in {"created", "enqueued"}
    /\ \E k \in Created :
          /\ k # caller[c].r
          /\ req[k].Route = KillRoute
          /\ req[k].phase \in {"received", "responded"}

\* C35: with Start called once, the loop receives one kill request and
\* no more, however many callers are inside Kill; when two callers are
\* inside Kill and a loop is running, one kill request is received and the
\* Kill that sent it returns; the other kill request is never received,
\* its response channel stays empty and its Kill does not return.
DoubleKill ==
    /\ [](\A m \in Allocated :
             /\ Cardinality({k \in KillsOf(m) :
                               req[k].phase \in {"received", "responded"}}) <= 1
             /\ Cardinality({k \in KillsOf(m) : req[k].taken > 0}) <= 1)
    /\ \A m \in MgrIds :
          (m \in Allocated /\ BothKilling(m) /\ LoopsOf(m) # {})
              ~> (/\ m \in Allocated
                  /\ \E k \in KillsOf(m) : req[k].phase = "responded" /\ req[k].taken = 1
                  /\ \E c \in CallerIds : Loser(c))
    /\ [][\A c \in CallerIds :
             Loser(c) => /\ Loser(c)'
                         /\ caller'[c].r = caller[c].r
                         /\ req'[caller[c].r].response = <<>>]_vars

\* C35 witness: the two callers called Kill while the loop was running;
\* one Kill has just returned, the loop has gone, and the other caller
\* waits on its kill request, which is still in the mailbox
DoubleKillWitness ==
    /\ ret.op = "Kill"
    /\ ret.Error = NoErr
    /\ \A l \in LoopIds : loop[l].pc = "free"
    /\ \E c \in CallerIds :
          /\ Loser(c)
          /\ caller[c].pc = "wait"
          /\ caller[c].m = ret.m
          /\ req[caller[c].r].ahead > 0
          /\ mgr[ret.m].requests = <<caller[c].r>>

\* the increments of Manager m whose handler has returned
Incremented(m) ==
    {r \in Created :
        /\ req[r].dest = m
        /\ req[r].fn = "inc"
        /\ \/ req[r].phase = "responded"
           \/ \E l \in LoopIds : loop[l].r = r /\ loop[l].pc = "store"}

\* a loop of Manager m that a Start after a Kill has launched is serving
\* request r, which is in the mailbox behind kill requests all received
Revived(r) ==
    /\ r \in Created
    /\ req[r].phase = "enqueued"
    /\ req[r].Route # KillRoute
    /\ Behind(r)
    /\ \A k \in Ahead(r) :
          req[k].Route = KillRoute => req[k].phase \in {"received", "responded"}
    /\ \E l \in LoopsOf(req[r].dest) : loop[l].pc \notin {"kill", "exit"}

\* C36: Start on a Manager whose loop has exited sets running to true
\* again and goes on with the mailbox.  Requests are received in the order
\* in which they joined the mailbox, across the restart; a request is
\* resolved in the route table as it is at its lookup; the increments
\* behind a received kill request are made on the state handed to the new
\* Start and the others on the state handed to the first; and a request
\* that was abandoned behind the kill request gets its response once a new
\* loop is running.
RestartResumes ==
    /\ [](\A r \in Created, q \in Created :
             (/\ req[q].dest = req[r].dest
              /\ req[q].phase # "created"
              /\ req[q].ticket < req[r].ticket
              /\ req[r].phase # "enqueued")
                => req[q].phase # "enqueued")
    /\ [](\A m \in Allocated :
             /\ state[m]["s2"] = Cardinality({r \in Incremented(m) : Behind(r)})
             /\ state[m]["s1"] = Cardinality({r \in Incremented(m) : ~Behind(r)}))
    /\ [][/\ \A l \in LoopIds :
                (loop[l].pc = "start" /\ loop'[l].pc # "start")
                    => /\ mgr'[loop[l].m].running
                       /\ mgr'[loop[l].m].requests = mgr[loop[l].m].requests
          /\ \A r \in Created :
                (req[r].phase = "received" /\ req'[r].phase = "dispatched")
                    => req'[r].fn = mgr[req[r].dest].functions[req[r].Route]]_vars
    /\ \A r \in ReqIds :
          Revived(r) ~> (r \in Created /\ req[r].phase = "responded"
                           /\ req[r].writes = 1)

\* C36 witness: an Await of an increment that was abandoned behind the
\* kill request has just returned; the loop of the second Start made the
\* increment on the state it was handed, and the flag is true again
RestartResumesWitness ==
    /\ ret.op = "Await"
    /\ ret.Error = NoErr
    /\ Behind(ret.r)
    /\ req[ret.r].ahead > 0
    /\ state[ret.m]["s2"] = 1
    /\ state[ret.m]["s1"] = 0
    /\ mgr[ret.m].running

\* the requests that have joined the mailbox of Manager m, oldest first
RECURSIVE Joined(_, _)
Joined(m, n) ==
    IF n = 0 THEN <<>>
    ELSE LET rs == {r \in Created : req[r].dest = m /\ req[r].ticket = n}
         IN  Joined(m, n - 1) \o (IF rs = {} THEN <<>> ELSE <<CHOOSE r \in rs : TRUE>>)

\* C37: requests sent to a Manager before Start stay in its mailbox, at
\* most bufferSize of them, in the order they joined, untouched; once
\* Start runs they are received in that order.  A Kill called before Start
\* returns only when the loop has received its kill request and every
\* request ahead of it has its response; and under fair scheduling the
\* running flag is false some time after such a Kill has returned.
LateStart ==
    /\ [](\A m \in Allocated :
             (~Consumed(m) /\ \A l \in LoopsOf(m) : loop[l].pc = "start")
                 => /\ mgr[m].requests = Joined(m, mgr[m].arrivals)
                    /\ Len(mgr[m].requests) <= mgr[m].bufferSize
                    /\ \A r \in Created :
                          req[r].dest = m => /\ req[r].phase = "enqueued"
                                             /\ req[r].response = <<>>
                                             /\ req[r].fn = NoFn)
    /\ [](\A r \in Created :
             /\ req[r].phase = "enqueued"
                   => \E i \in 1 .. Len(mgr[req[r].dest].requests) :
                         mgr[req[r].dest].requests[i] = r
             /\ \A q \in Ahead(r) : req[r].phase # "enqueued" => req[q].phase # "enqueued")
    /\ []((ret.op = "Kill" /\ ret.m # NoMgr)
             => /\ req[ret.r].phase = "responded"
                /\ mgr[ret.m].arrivals > 0
                /\ ~Unstarted(ret.m)
                /\ \A q \in Ahead(ret.r) : req[q].phase = "responded" /\ req[q].writes = 1)
    /\ \A m \in MgrIds :
          (m \in Allocated /\ \E k \in Created :
              req[k].Route = KillRoute /\ req[k].dest = m /\ req[k].taken > 0)
             ~> (m \in Allocated /\ ~mgr[m].running)

\* C37 witness: an increment and then a Kill were called before Start;
\* Kill has just returned, after the loop made the increment
LateStartWitness ==
    /\ ret.op = "Kill"
    /\ ret.Error = NoErr
    /\ req[ret.r].ahead > 0
    /\ \E q \in Ahead(ret.r) :
          /\ req[q].Route = "inc"
          /\ req[q].phase = "responded"
          /\ req[q].fn = "inc"
    /\ state[ret.m]["s1"] = 1

\* the flag read false by IsRunning after the Kill called before Start
\* has returned and the loop has gone
LateStartStopped ==
    /\ ret.op = "IsRunning"
    /\ ret.Data = BoolV(FALSE)
    /\ \E k \in Created : req[k].Route = KillRoute /\ req[k].taken > 0 /\ req[k].ahead > 0

\* the callers inside a Wait on Request r
Waiters(r) == {c \in CallerIds : caller[c].pc = "wait" /\ caller[c].r = r}

\* C38: the response of a Request dispatched once is consumed once.  At
\* most one Wait returns it; when callers wait on a Request that has its
\* response, one of them takes it; once it is taken the channel is empty,
\* HasData is false again, and a caller inside Wait on that Request,
\* whether it began before or after, stays there.
ConsumedOnce ==
    /\ [](\A r \in Created :
             /\ req[r].taken <= req[r].writes
             /\ req[r].writes <= 1
             /\ req[r].taken = 1 => ~hasData(r)
             /\ (ret.op = "HasData" /\ ret.r = r /\ req[r].taken = 1)
                   => ret.Data = BoolV(FALSE)
             /\ (ret.op = "Wait" /\ ret.r = r) => req[r].taken = 1)
    /\ [][\A r \in Created :
             req[r].taken = 1
                => /\ \A c \in Waiters(r) : caller'[c] = caller[c]
                   /\ req'[r].response = <<>>]_vars
    /\ \A r \in ReqIds :
          (r \in Created /\ Waiters(r) # {} /\ req[r].writes = 1 /\ req[r].taken = 0)
             ~> (r \in Created /\ req[r].taken = 1)

\* C38 witness: both callers were inside Wait on the same Request; one
\* Wait has just returned the response and the other caller is still
\* inside Wait, on an empty channel
ConsumedOnceWitness ==
    /\ ret.op = "Wait"
    /\ ret.Error = NoErr
    /\ req[ret.r].fn = "inc"
    /\ req[ret.r].taken = 1
    /\ Waiters(ret.r) # {}
    /\ ~hasData(ret.r)

\* HasData reads false for a Request whose response a Wait returned,
\* while a caller is inside a second Wait on it
WaitAfterConsumed ==
    /\ ret.op = "HasData"
    /\ ret.Data = BoolV(FALSE)
    /\ req[ret.r].taken = 1
    /\ Waiters(ret.r) # {}

\* the handler that loop l runs is inside an Await or a Kill of the
\* Manager the loop serves
SelfAwaiting(l) ==
    /\ loop[l].pc = "handler"
    /\ loop[l].call \in {"send", "wait"}
    /\ loop[l].to = loop[l].m

\* C39: with Start called once, a handler that calls Await or Kill of its
\* own Manager never returns from the call: the loop stays in that
\* handler, takes nothing more from the mailbox, the request it is
\* handling and the Request the handler made get no response, and every
\* caller that waits for a response of that Manager which is not yet
\* stored, or for room in its mailbox, stays where it is.
SelfAwaitDeadlock ==
    [][\A l \in LoopIds :
          SelfAwaiting(l)
             => /\ SelfAwaiting(l)'
                /\ loop'[l].r = loop[l].r
                /\ loop'[l].sub = loop[l].sub
                /\ req'[loop[l].r].response = <<>>
                /\ req'[loop[l].sub].response = <<>>
                /\ Len(mgr'[loop[l].m].requests) >= Len(mgr[loop[l].m].requests)
                /\ \A i \in 1 .. Len(mgr[loop[l].m].requests) :
                      mgr'[loop[l].m].requests[i] = mgr[loop[l].m].requests[i]
                /\ \A c \in CallerIds :
                      (/\ caller[c].m = loop[l].m
                       /\ caller[c].pc = "wait"
                       /\ req[caller[c].r].response = <<>>)
                          => caller'[c] = caller[c]]_vars

\* C39 witness: the handler of the first Manager waits for the response of
\* an Await of that Manager; its Request is in the mailbox, where the loop
\* is not receiving, behind the request of a caller that waits as well,
\* and the caller whose request is being handled waits too
SelfAwaitDeadlockWitness ==
    \E l \in LoopIds :
        /\ SelfAwaiting(l)
        /\ loop[l].call = "wait"
        /\ Len(mgr[loop[l].m].requests) = 1
        /\ \A c \in CallerIds :
              /\ caller[c].pc \in {"wait", "send"}
              /\ caller[c].m = loop[l].m
              /\ req[caller[c].r].response = <<>>
        /\ \E c \in CallerIds : caller[c].r = loop[l].r

\* a handler of the first Manager has returned from an Await of the
\* second Manager, which answered it
OtherAwaitReturns ==
    \E l \in LoopIds, q \in Created :
        /\ loop[l].pc = "handler"
        /\ loop[l].m = 1
        /\ loop[l].call = ""
        /\ req[q].dest = 2
        /\ req[q].taken = 1

\* the calls whose frame is stated
FrameOps == {"Attach", "Detach", "Kill", "Remove"}

\* this step is a step of caller c inside one of those calls on Manager m
ActsOn(c, m) ==
    \/ ret'.c = c /\ ret'.op \in FrameOps /\ ret'.m = m
    \/ /\ caller'[c] # caller[c]
       /\ \/ caller[c].op \in FrameOps /\ caller[c].m = m
          \/ caller'[c].op \in FrameOps /\ caller'[c].m = m

\* a request is handled by a loop of the Manager it was sent to, with the
\* state and the route table of that Manager
OwnDispatch ==
    /\ [](\A l \in LoopIds :
             loop[l].r # NoReq => req[loop[l].r].dest = loop[l].m)
    /\ [][\A r \in Created :
             (req[r].phase = "received" /\ req'[r].phase = "dispatched")
                => /\ req'[r].fn = mgr[req[r].dest].functions[req[r].Route]
                   /\ \E l \in LoopsOf(req[r].dest) :
                         loop[l].r = r /\ req'[r].read = state[req[r].dest][loop[l].s]]_vars

\* a step of Attach, Detach, Kill or Remove on a Manager leaves the
\* object of every other Manager as it is
ObjectFrame ==
    [][\A c \in CallerIds, m \in Allocated :
          ActsOn(c, m) => \A b \in Allocated \ {m} :
                              mgr'[b] = mgr[b] /\ state'[b] = state[b]]_vars

\* C40: Managers are isolated.  A request is handled by a loop of the
\* Manager it was sent to, with that Manager's state and route table; and
\* a step of Attach, Detach, Kill or Remove on Manager A leaves the
\* mailbox, the routes and the running flag of every other Manager B as
\* they are, and every map entry that holds B.
Isolated ==
    /\ OwnDispatch
    /\ ObjectFrame
    /\ [][\A c \in CallerIds, m \in Allocated :
             ActsOn(c, m) => \A n \in Names :
                                (managersMap[n] # NoMgr /\ managersMap[n] # m)
                                    => managersMap'[n] = managersMap[n]]_vars

\* both Managers are started: a loop of the second handles an increment
\* sent to it while the route of the first has been attached anew
TwoManagersServed ==
    /\ Len(mgr) = 2
    /\ mgr[1].functions["inc"] = "square"
    /\ mgr[2].functions["inc"] = "inc"
    /\ \E l \in LoopIds : loop[l].m = 2 /\ loop[l].pc = "handler"
    /\ ret.op = "Attach" /\ ret.m = 1

====
